---------------------------- MODULE Spec2Model ----------------------------
(***************************************************************************)
(* Streamex: the client-side rate-limit / retry coordinator                *)
(* (frontend/src/lib/utils.js, class RateLimitHandler) and the chat        *)
(* connection lifecycle built on it (frontend/src/pages/ChatPage.jsx).     *)
(*                                                                         *)
(* JavaScript strings are sequences of one-character strings, so that      *)
(* template keys, startsWith and includes are computed as the code         *)
(* computes them.  Time is Date.now() in milliseconds.                     *)
(***************************************************************************)
EXTENDS Integers, Sequences, FiniteSets, TLC

VARIABLES
    now,                \* Date.now()
    nTicks,             \* number of clock advances so far (bounds the run)
    retryAttempts,      \* Map key -> attempt count
    lastRequestTime,    \* Map key -> time of the last pass of the gate
    connectionAttempts, \* Map ws key -> {count, firstAttempt}
    blockedOperations,  \* Set of keys
    timers,             \* pending setTimeout(unblock) callbacks: {key, due}
    calls,              \* the executeWithRetry calls in flight, per slot
    gateLog,            \* what the last direct gate call observed
    wsHist,             \* per ws key: the attempts admitted in its window
    lastEvent,          \* the handler operation that ran last
    chat                \* ChatPage: module globals, refs and callers

vars == <<now, nTicks, retryAttempts, lastRequestTime, connectionAttempts,
          blockedOperations, timers, calls, gateLog, wsHist, lastEvent, chat>>

handlerVars == <<retryAttempts, lastRequestTime, connectionAttempts,
                 blockedOperations, timers>>

-----------------------------------------------------------------------------
(* Bounds of the model *)

\* clock advances per run
MaxTicks == 2
\* largest maxRetries argument a caller passes in the concurrent runs
MaxRetriesArg == 1
\* invocations beyond maxRetries + 1 that a call is followed through
MaxOverrun == 0
\* largest maxRetries argument in the sequential runs
SoloRetriesArg == 5
\* direct shouldRateLimit calls per run
MaxGateCalls == 3
\* direct shouldRateLimitWebSocket calls per run
MaxWsCalls == 8
\* clock advances per sequential run
MaxSoloTicks == 7
\* clock advances per run of the gate alone
MaxGateTicks == 3
\* callers of initializeChat
NumCallers == 3
\* the largest attempt count a backoff delay is computed for
MaxBackoffAttempt == 6
\* requests the backend handles at a time
NumRequests == 2

-----------------------------------------------------------------------------
(* Program constants *)

BaseDelay == 2000
MaxDelay == 60000
MinRequestInterval == 2000
WsWindow == 300000
WsMaxAttempts == 5
BlockDuration == 300000
OverloadAttempts == 50
OverloadBlocked == 10

-----------------------------------------------------------------------------
(* JavaScript strings *)

UpperChars == <<"A","B","C","D","E","F","G","H","I","J","K","L","M",
                "N","O","P","Q","R","S","T","U","V","W","X","Y","Z">>
LowerChars == <<"a","b","c","d","e","f","g","h","i","j","k","l","m",
                "n","o","p","q","r","s","t","u","v","w","x","y","z">>

LowerChar(ch) ==
    IF \E i \in 1..26 : UpperChars[i] = ch
    THEN LowerChars[CHOOSE i \in 1..26 : UpperChars[i] = ch]
    ELSE ch

\* String.prototype.toLowerCase
ToLowerCase(s) == [i \in 1..Len(s) |-> LowerChar(s[i])]

\* String.prototype.startsWith
StartsWith(s, p) ==
    /\ Len(p) <= Len(s)
    /\ \A i \in 1..Len(p) : s[i] = p[i]

\* String.prototype.includes
Includes(s, sub) ==
    \E off \in 0..(Len(s) - Len(sub)) :
        \A i \in 1..Len(sub) : s[off + i] = sub[i]

-----------------------------------------------------------------------------
(* JavaScript Map *)

EmptyMap == <<>>
MapHas(m, k) == k \in DOMAIN m
MapSet(m, k, v) == [x \in (DOMAIN m) \cup {k} |-> IF x = k THEN v ELSE m[x]]
MapDelete(m, k) == [x \in (DOMAIN m) \ {k} |-> m[x]]

-----------------------------------------------------------------------------
(* Operation types and subjects *)

\* "video-call"
OpVideoCall ==
    <<"v","i","d","e","o","-","c","a","l","l">>
\* "channel-create"
OpChannelCreate ==
    <<"c","h","a","n","n","e","l","-","c","r","e","a","t","e">>
\* "user-connect"
OpUserConnect ==
    <<"u","s","e","r","-","c","o","n","n","e","c","t">>
\* "user-init"
OpUserInit ==
    <<"u","s","e","r","-","i","n","i","t">>
\* "send-message"
OpSendMessage ==
    <<"s","e","n","d","-","m","e","s","s","a","g","e">>
\* "default"
OpDefault ==
    <<"d","e","f","a","u","l","t">>

OpTypes == {OpVideoCall, OpChannelCreate, OpUserConnect, OpUserInit,
            OpSendMessage, OpDefault}

\* Two subject ids, the first a string prefix of the second.
UserA == <<"a">>
UserAB == <<"a","b">>
Users == {UserA, UserAB}

\* `${userId}-${operation}`
Key(userId, operation) == userId \o <<"-">> \o operation

\* `${userId}-ws-${type}`
WsKey(userId, type) == userId \o <<"-","w","s","-">> \o type


-----------------------------------------------------------------------------
(* Errors.  An error object is named by a string; Message gives its        *)
(* .message.  The first five are thrown by the collaborator's SDK, the     *)
(* last three are constructed by executeWithRetry.                         *)

\* "Request failed with status code 429"
Msg429 ==
    <<"R","e","q","u","e","s","t"," ","f","a","i","l","e","d"," ","w","i","t",
    "h"," ","s","t","a","t","u","s"," ","c","o","d","e"," ","4","2","9">>
\* "Network Error"
MsgNetwork ==
    <<"N","e","t","w","o","r","k"," ","E","r","r","o","r">>
\* "WS failed: Too Many Requests"
MsgBoth ==
    <<"W","S"," ","f","a","i","l","e","d",":"," ","T","o","o"," ","M","a","n",
    "y"," ","R","e","q","u","e","s","t","s">>
\* "Unauthorized"
MsgOther ==
    <<"U","n","a","u","t","h","o","r","i","z","e","d">>
\* "Call creation timed out"
MsgTimedOut ==
    <<"C","a","l","l"," ","c","r","e","a","t","i","o","n"," ","t","i","m","e",
    "d"," ","o","u","t">>
\* "WebSocket connection rate limit exceeded. Please wait 5 minutes."
MsgWsLimit ==
    <<"W","e","b","S","o","c","k","e","t"," ","c","o","n","n","e","c","t","i",
    "o","n"," ","r","a","t","e"," ","l","i","m","i","t"," ","e","x","c","e",
    "e","d","e","d","."," ","P","l","e","a","s","e"," ","w","a","i","t"," ",
    "5"," ","m","i","n","u","t","e","s",".">>
\* "Video connection failed. Please refresh the page and try again."
MsgVideoFailed ==
    <<"V","i","d","e","o"," ","c","o","n","n","e","c","t","i","o","n"," ","f",
    "a","i","l","e","d","."," ","P","l","e","a","s","e"," ","r","e","f","r",
    "e","s","h"," ","t","h","e"," ","p","a","g","e"," ","a","n","d"," ","t",
    "r","y"," ","a","g","a","i","n",".">>
\* "Rate limit exceeded. Please wait 5 minutes before trying again."
MsgRateExceeded ==
    <<"R","a","t","e"," ","l","i","m","i","t"," ","e","x","c","e","e","d","e",
    "d","."," ","P","l","e","a","s","e"," ","w","a","i","t"," ","5"," ","m",
    "i","n","u","t","e","s"," ","b","e","f","o","r","e"," ","t","r","y","i",
    "n","g"," ","a","g","a","i","n",".">>

\* "Call has already been left"
MsgAlreadyLeft ==
    <<"C","a","l","l"," ","h","a","s"," ","a","l","r","e","a","d","y"," ","b",
    "e","e","n"," ","l","e","f","t">>

CollaboratorErrors == {"E429", "ENetwork", "EBoth", "EOther", "ETimedOut"}
Errors == CollaboratorErrors \cup {"EWsLimit", "EVideoFailed", "ERateExceeded"}

Message(e) ==
    CASE e = "E429" -> Msg429
      [] e = "ENetwork" -> MsgNetwork
      [] e = "EBoth" -> MsgBoth
      [] e = "EOther" -> MsgOther
      [] e = "ETimedOut" -> MsgTimedOut
      [] e = "EWsLimit" -> MsgWsLimit
      [] e = "EVideoFailed" -> MsgVideoFailed
      [] e = "ERateExceeded" -> MsgRateExceeded
      [] e = "EAlreadyLeft" -> MsgAlreadyLeft

\* Error.prototype.toString: "Error: " + message
ErrorToString(e) == <<"E","r","r","o","r",":"," ">> \o Message(e)

RateLimitIndicators == {
    \* too many requests
    <<"t","o","o"," ","m","a","n","y"," ","r","e","q","u","e","s","t","s">>,
    \* rate limit
    <<"r","a","t","e"," ","l","i","m","i","t">>,
    \* error code 9
    <<"e","r","r","o","r"," ","c","o","d","e"," ","9">>,
    \* statuscode":429
    <<"s","t","a","t","u","s","c","o","d","e","\"",":","4","2","9">>,
    \* status code 429
    <<"s","t","a","t","u","s"," ","c","o","d","e"," ","4","2","9">>,
    \* getorcreatechannel failed
    <<"g","e","t","o","r","c","r","e","a","t","e","c","h","a","n","n","e","l",
      " ","f","a","i","l","e","d">>,
    \* quota exceeded
    <<"q","u","o","t","a"," ","e","x","c","e","e","d","e","d">>,
    \* limit exceeded
    <<"l","i","m","i","t"," ","e","x","c","e","e","d","e","d">>
    }

WsErrorIndicators == {
    \* websocket
    <<"w","e","b","s","o","c","k","e","t">>,
    \* ws failed
    <<"w","s"," ","f","a","i","l","e","d">>,
    \* connection failed
    <<"c","o","n","n","e","c","t","i","o","n"," ","f","a","i","l","e","d">>,
    \* code: 1006
    <<"c","o","d","e",":"," ","1","0","0","6">>,
    \* joinresponse
    <<"j","o","i","n","r","e","s","p","o","n","s","e">>,
    \* timed out
    <<"t","i","m","e","d"," ","o","u","t">>,
    \* network error
    <<"n","e","t","w","o","r","k"," ","e","r","r","o","r">>,
    \* connection closed
    <<"c","o","n","n","e","c","t","i","o","n"," ","c","l","o","s","e","d">>,
    \* sfu
    <<"s","f","u">>,
    \* coordinator
    <<"c","o","o","r","d","i","n","a","t","o","r">>
    }

\* Mutant of isRateLimitError: an indicator every error string contains.
isRateLimitError_LooseIndicator(e) ==
    LET errorMessage == ToLowerCase(Message(e))
        errorString == ToLowerCase(ErrorToString(e))
    IN \E indicator \in RateLimitIndicators \cup {<<"e","r","r","o","r">>} :
           Includes(errorMessage, indicator) \/ Includes(errorString, indicator)

isRateLimitError(e) ==
    LET errorMessage == ToLowerCase(Message(e))
        errorString == ToLowerCase(ErrorToString(e))
    IN \E indicator \in RateLimitIndicators :
           Includes(errorMessage, indicator) \/ Includes(errorString, indicator)

isWebSocketError(e) ==
    LET errorMessage == ToLowerCase(Message(e))
        errorString == ToLowerCase(ErrorToString(e))
    IN \E indicator \in WsErrorIndicators :
           Includes(errorMessage, indicator) \/ Includes(errorString, indicator)

\* The classification of every error of the model, computed once.
RateLimitErrors == {e \in Errors : isRateLimitError(e)}
\* Mutant of WebSocketErrors: an error that is also a rate limit error is not
\* taken as a connection error.
WebSocketErrors_RateLimitFirst ==
    {e \in Errors : isWebSocketError(e) /\ ~isRateLimitError(e)}
WebSocketErrors == {e \in Errors : isWebSocketError(e)}

-----------------------------------------------------------------------------
(* RateLimitHandler: pure parts *)

Min(a, b) == IF a < b THEN a ELSE b

\* Math.random() * 1000, as a whole number of milliseconds
Jitters == 0..999

\* Mutant of calculateBackoffDelay: the delay is not capped.
calculateBackoffDelay_NoCap(attempt, jitter) ==
    BaseDelay * (2 ^ attempt) + jitter

calculateBackoffDelay(attempt, jitter) ==
    Min(BaseDelay * (2 ^ attempt), MaxDelay) + jitter

\* Mutant of Interval: the table is ignored.
Interval_NoTable(operation) == MinRequestInterval

\* the intervals table of shouldRateLimit: intervals[operation] || default
Interval(operation) ==
    CASE operation = OpVideoCall -> 5000
      [] operation = OpChannelCreate -> 3000
      [] operation = OpUserConnect -> 4000
      [] operation = OpSendMessage -> 1000
      [] operation = OpDefault -> MinRequestInterval
      [] OTHER -> MinRequestInterval

\* Mutant of shouldRateLimit: the request time is recorded on every call.
shouldRateLimit_AlwaysRecords(userId, operation, lrt, blocked, t) ==
    LET key == Key(userId, operation)
    IN [ret |-> \/ key \in blocked
                \/ /\ MapHas(lrt, key) /\ lrt[key] # 0
                   /\ (t - lrt[key]) < Interval(operation),
        lastRequestTime |-> MapSet(lrt, key, t)]

\* shouldRateLimit: the value returned and the lastRequestTime map it leaves
shouldRateLimit(userId, operation, lrt, blocked, t) ==
    LET key == Key(userId, operation)
    IN IF key \in blocked
       THEN [ret |-> TRUE, lastRequestTime |-> lrt]
       ELSE IF MapHas(lrt, key) /\ lrt[key] # 0
               /\ (t - lrt[key]) < Interval(operation)
            THEN [ret |-> TRUE, lastRequestTime |-> lrt]
            ELSE [ret |-> FALSE, lastRequestTime |-> MapSet(lrt, key, t)]

\* Mutant of shouldRateLimitWebSocket: a blocked call is counted too.
shouldRateLimitWebSocket_CountsBlocked(userId, type, ca, t) ==
    LET key == WsKey(userId, type)
        attempts == IF MapHas(ca, key) THEN ca[key]
                    ELSE [count |-> 0, firstAttempt |-> t]
    IN IF t - attempts.firstAttempt > WsWindow
       THEN [ret |-> FALSE, connectionAttempts |-> MapDelete(ca, key)]
       ELSE [ret |-> attempts.count >= WsMaxAttempts,
             connectionAttempts |->
                 MapSet(ca, key, [attempts EXCEPT !.count = @ + 1])]

\* shouldRateLimitWebSocket: the value returned and the map it leaves
shouldRateLimitWebSocket(userId, type, ca, t) ==
    LET key == WsKey(userId, type)
        attempts == IF MapHas(ca, key) THEN ca[key]
                    ELSE [count |-> 0, firstAttempt |-> t]
    IN IF t - attempts.firstAttempt > WsWindow
       THEN [ret |-> FALSE, connectionAttempts |-> MapDelete(ca, key)]
       ELSE IF attempts.count >= WsMaxAttempts
            THEN [ret |-> TRUE, connectionAttempts |-> ca]
            ELSE [ret |-> FALSE,
                  connectionAttempts |->
                      MapSet(ca, key, [attempts EXCEPT !.count = @ + 1])]

RECURSIVE SumValues(_, _)
SumValues(m, keys) ==
    IF keys = {} THEN 0
    ELSE LET k == CHOOSE x \in keys : TRUE
         IN m[k] + SumValues(m, keys \ {k})

isSystemOverloaded(ra, blocked) ==
    LET totalAttempts == SumValues(ra, DOMAIN ra)
        totalBlocked == Cardinality(blocked)
    IN totalAttempts > OverloadAttempts \/ totalBlocked > OverloadBlocked

\* Mutant of SleepMs: every sleep is extended.
SleepMs_Extended(ms, ra, blocked) == (ms * 3) \div 2

\* sleep(ms): the delay handed to setTimeout
SleepMs(ms, ra, blocked) ==
    IF isSystemOverloaded(ra, blocked) THEN (ms * 3) \div 2 ELSE ms

\* Mutant of IsWsOperation: every operation type goes through the WebSocket
\* gate.
IsWsOperation_Always(operationType) == TRUE

\* operationType.includes('video') || operationType.includes('connect')
IsWsOperation(operationType) ==
    \/ Includes(operationType, <<"v","i","d","e","o">>)
    \/ Includes(operationType, <<"c","o","n","n","e","c","t">>)

-----------------------------------------------------------------------------
(* executeWithRetry.  One slot per external call; a slot runs the code     *)
(* between two awaits as one step.                                         *)
(*   pc: "idle", "throttle" (line 91), "op" (line 95), "backoff"           *)
(*       (line 119), "done"                                                *)
(* The fields from invoked on record what the call did; the code does not  *)
(* read them.                                                              *)

\* Two slots: two external calls may be in flight at once.
Calls == {1, 2}

\* lastEvent when the last step was not clearUserAttempts
NoEvent == [op |-> "none", userId |-> <<>>, hadBlocked |-> FALSE]

NoResult == [kind |-> "none", val |-> "none"]

IdleCall ==
    [pc |-> "idle", userId |-> <<>>, operationType |-> <<>>, maxRetries |-> 0,
     attempt |-> 0, wakeAt |-> 0, result |-> NoResult,
     invoked |-> 0,          \* invocations of the wrapped operation
     retries |-> 0,          \* recursive calls made
     failed |-> 0,           \* retryable failures of the operation seen
     opResult |-> "none",    \* what the operation last resolved with
     fresh |-> FALSE,        \* the key had no state when the call began
     allRetryable |-> TRUE,  \* every outcome so far was a retryable failure
     enteredBlocked |-> FALSE, \* the key was blocked at the last entry
     blockedAtEnd |-> FALSE] \* the key was blocked when the call ended

\* jitter values the runs draw
JitterChoices == {0}

OpValues == {"value"}

KeyOf(rec) == Key(rec.userId, rec.operationType)

NoPriorState(userId, operationType) ==
    /\ ~MapHas(retryAttempts, Key(userId, operationType))
    /\ ~MapHas(lastRequestTime, Key(userId, operationType))
    /\ Key(userId, operationType) \notin blockedOperations
    /\ ~MapHas(connectionAttempts, WsKey(userId, operationType))

\* What the history of the ws gate becomes when the gate is asked at time t
\* and answers ret: the window the attempt falls in and the attempts
\* admitted in that window.
WsHistAfter(h, key, t, ret) ==
    LET old == IF MapHas(h, key) /\ t - h[key].start <= WsWindow
               THEN h[key] ELSE [start |-> t, passes |-> 0]
    IN MapSet(h, key,
              [old EXCEPT !.passes = IF ret THEN @ ELSE @ + 1])

\* Lines 77-95: from the entry of executeWithRetry to its first await.
Enter(c, rec, jitter) ==
    LET key == KeyOf(rec)
        attempt == IF MapHas(retryAttempts, key) THEN retryAttempts[key] ELSE 0
        isWs == IsWsOperation(rec.operationType)
        ws == IF isWs
              THEN shouldRateLimitWebSocket(rec.userId, rec.operationType,
                                            connectionAttempts, now)
              ELSE [ret |-> FALSE, connectionAttempts |-> connectionAttempts]
        gate == shouldRateLimit(rec.userId, rec.operationType,
                                lastRequestTime, blockedOperations, now)
        delay == calculateBackoffDelay(attempt, jitter)
        r0 == [rec EXCEPT !.attempt = attempt,
                          !.enteredBlocked = (key \in blockedOperations)]
    IN /\ connectionAttempts' = ws.connectionAttempts
       /\ wsHist' = IF isWs
                    THEN WsHistAfter(wsHist, WsKey(rec.userId, rec.operationType),
                                     now, ws.ret)
                    ELSE wsHist
       /\ IF ws.ret
          THEN /\ calls' = [calls EXCEPT ![c] =
                               [r0 EXCEPT !.pc = "done",
                                          !.attempt = 0,
                                          !.wakeAt = 0,
                                          !.result = [kind |-> "threw",
                                                      val |-> "EWsLimit"],
                                          !.blockedAtEnd =
                                              (key \in blockedOperations)]]
               /\ UNCHANGED lastRequestTime
          ELSE /\ lastRequestTime' = gate.lastRequestTime
               /\ IF gate.ret
                  THEN calls' = [calls EXCEPT ![c] =
                           [r0 EXCEPT !.pc = "throttle",
                                      !.wakeAt = now + SleepMs(delay,
                                                    retryAttempts,
                                                    blockedOperations)]]
                  ELSE calls' = [calls EXCEPT ![c] =
                           [r0 EXCEPT !.pc = "op", !.wakeAt = 0,
                                      !.invoked = @ + 1]]
       /\ UNCHANGED <<retryAttempts, blockedOperations, timers>>

\* An external call: executeWithRetry(operation, userId, operationType,
\* maxRetries).
ExecuteWithRetry(c, userId, operationType, maxRetries, jitter) ==
    /\ calls[c].pc \in {"idle", "done"}
    /\ Enter(c, [IdleCall EXCEPT !.userId = userId,
                                 !.operationType = operationType,
                                 !.maxRetries = maxRetries,
                                 !.fresh = NoPriorState(userId, operationType)],
             jitter)
    /\ lastEvent' = NoEvent
    /\ UNCHANGED <<now, nTicks, gateLog, chat>>

\* Mutant of WakeThrottle: the request time is recorded after the sleep.
WakeThrottle_Records(c) ==
    /\ calls[c].pc = "throttle"
    /\ now >= calls[c].wakeAt
    /\ calls' = [calls EXCEPT ![c].pc = "op", ![c].wakeAt = 0,
                              ![c].invoked = @ + 1]
    /\ lastRequestTime' = MapSet(lastRequestTime, KeyOf(calls[c]), now)
    /\ lastEvent' = NoEvent
    /\ UNCHANGED <<now, nTicks, retryAttempts, connectionAttempts,
                   blockedOperations, timers, gateLog, wsHist, chat>>

\* Line 91 resumes: the throttling sleep is over, the operation is invoked.
WakeThrottle(c) ==
    /\ calls[c].pc = "throttle"
    /\ now >= calls[c].wakeAt
    /\ calls' = [calls EXCEPT ![c].pc = "op", ![c].wakeAt = 0,
                              ![c].invoked = @ + 1]
    /\ lastEvent' = NoEvent
    /\ UNCHANGED <<now, nTicks, handlerVars, gateLog, wsHist, chat>>

\* Lines 98-99: the reset on success.
RetryAttemptsOnSuccess(ra, key) == MapDelete(ra, key)
\* Mutant of BlockedOnSuccess: the block survives a success.
BlockedOnSuccess_Kept(blocked, key) == blocked

BlockedOnSuccess(blocked, key) == blocked \ {key}

\* Lines 95-100: the operation resolved with v.
OpReturns(c, v) ==
    LET key == KeyOf(calls[c])
    IN /\ calls[c].pc = "op"
       /\ retryAttempts' = RetryAttemptsOnSuccess(retryAttempts, key)
       /\ blockedOperations' = BlockedOnSuccess(blockedOperations, key)
       /\ calls' = [calls EXCEPT ![c].pc = "done",
                                 ![c].attempt = 0,
                                 ![c].wakeAt = 0,
                                 ![c].opResult = v,
                                 ![c].allRetryable = FALSE,
                                 ![c].blockedAtEnd = FALSE,
                                 ![c].result = [kind |-> "returned", val |-> v]]
       /\ lastEvent' = NoEvent
       /\ UNCHANGED <<now, nTicks, lastRequestTime, connectionAttempts, timers,
                      gateLog, wsHist, chat>>

\* Line 105: the error is one to retry.
IsRetryable(e) == e \in RateLimitErrors \/ e \in WebSocketErrors

\* Mutant of MayRetry: the comparison off by one.
MayRetry_OffByOne(attempt, maxRetries) == attempt <= maxRetries

\* Line 106: another retry is allowed.
MayRetry(attempt, maxRetries) == attempt < maxRetries

\* Lines 101-140: the operation rejected with error e.
OpThrows(c, e, jitter) ==
    LET rec == calls[c]
        key == KeyOf(rec)
        retryable == IsRetryable(e)
        attempt == rec.attempt + 1
        ra == MapSet(retryAttempts, key, attempt)
        base == calculateBackoffDelay(attempt, jitter)
        delay == IF e \in WebSocketErrors THEN base * 2 ELSE base
    IN /\ rec.pc = "op"
       /\ rec.invoked <= rec.maxRetries + 1 + MaxOverrun
       /\ IF retryable
          THEN IF MayRetry(rec.attempt, rec.maxRetries)
               THEN /\ retryAttempts' = ra
                    /\ calls' = [calls EXCEPT ![c] =
                           [rec EXCEPT !.pc = "backoff",
                                       !.attempt = attempt,
                                       !.failed = @ + 1,
                                       !.opResult = e,
                                       !.wakeAt = now + SleepMs(delay, ra,
                                                     blockedOperations)]]
                    /\ UNCHANGED <<blockedOperations, timers>>
               ELSE /\ blockedOperations' = blockedOperations \cup {key}
                    /\ timers' = timers \cup
                                   {[key |-> key, due |-> now + BlockDuration]}
                    /\ calls' = [calls EXCEPT ![c] =
                           [rec EXCEPT !.pc = "done",
                                       !.attempt = 0,
                                       !.wakeAt = 0,
                                       !.failed = @ + 1,
                                       !.opResult = e,
                                       !.blockedAtEnd = TRUE,
                                       !.result =
                                           [kind |-> "threw",
                                            val |-> IF e \in WebSocketErrors
                                                    THEN "EVideoFailed"
                                                    ELSE "ERateExceeded"]]]
                    /\ UNCHANGED retryAttempts
          ELSE /\ calls' = [calls EXCEPT ![c] =
                      [rec EXCEPT !.pc = "done",
                                  !.attempt = 0,
                                  !.wakeAt = 0,
                                  !.opResult = e,
                                  !.allRetryable = FALSE,
                                  !.blockedAtEnd = (key \in blockedOperations),
                                  !.result = [kind |-> "threw", val |-> e]]]
               /\ UNCHANGED <<retryAttempts, blockedOperations, timers>>
       /\ lastEvent' = NoEvent
       /\ UNCHANGED <<now, nTicks, lastRequestTime, connectionAttempts,
                      gateLog, wsHist, chat>>

\* Lines 119-120: the backoff sleep is over; the recursive call begins.
WakeBackoff(c, jitter) ==
    /\ calls[c].pc = "backoff"
    /\ now >= calls[c].wakeAt
    /\ Enter(c, [calls[c] EXCEPT !.retries = @ + 1], jitter)
    /\ lastEvent' = NoEvent
    /\ UNCHANGED <<now, nTicks, gateLog, chat>>

\* Line 126: the clock reaches the deadline of a pending timer.
TimerDeadline(t) ==
    /\ t \in timers
    /\ now < t.due
    /\ \A s \in timers : s.due > now => t.due <= s.due
    /\ now' = t.due
    /\ lastEvent' = NoEvent
    /\ UNCHANGED <<nTicks, handlerVars, calls, gateLog, wsHist, chat>>

\* Mutant of TimerFires: the callback leaves the key in the set.
TimerFires_KeepsKey(t) ==
    /\ t \in timers
    /\ now >= t.due
    /\ timers' = timers \ {t}
    /\ lastEvent' = NoEvent
    /\ UNCHANGED <<now, nTicks, retryAttempts, lastRequestTime,
                   blockedOperations, connectionAttempts, calls, gateLog,
                   wsHist, chat>>

\* Lines 124-126: the unblock callback of a setTimeout runs.
TimerFires(t) ==
    /\ t \in timers
    /\ now >= t.due
    /\ blockedOperations' = blockedOperations \ {t.key}
    /\ timers' = timers \ {t}
    /\ lastEvent' = NoEvent
    /\ UNCHANGED <<now, nTicks, retryAttempts, lastRequestTime,
                   connectionAttempts, calls, gateLog, wsHist, chat>>

\* Time passes.
Tick(d, maxTicks) ==
    /\ nTicks < maxTicks
    /\ nTicks' = nTicks + 1
    /\ now' = now + d
    /\ lastEvent' = NoEvent
    /\ UNCHANGED <<handlerVars, calls, gateLog, wsHist, chat>>

\* Mutant of clearUserAttempts: the blocked operations are not cleared.
clearUserAttempts_BlockedKept(userId) ==
    LET keysToDelete ==
            {k \in DOMAIN retryAttempts : StartsWith(k, userId)}
            \cup {k \in DOMAIN lastRequestTime : StartsWith(k, userId)}
    IN /\ blockedOperations' = blockedOperations
       /\ connectionAttempts' =
              [k \in {x \in DOMAIN connectionAttempts : ~StartsWith(x, userId)}
                  |-> connectionAttempts[k]]
       /\ retryAttempts' =
              [k \in (DOMAIN retryAttempts) \ keysToDelete |-> retryAttempts[k]]
       /\ lastRequestTime' =
              [k \in (DOMAIN lastRequestTime) \ keysToDelete
                  |-> lastRequestTime[k]]

\* clearUserAttempts(userId), lines 206-243.
clearUserAttempts(userId) ==
    LET keysToDelete ==
            {k \in DOMAIN retryAttempts : StartsWith(k, userId)}
            \cup {k \in DOMAIN lastRequestTime : StartsWith(k, userId)}
    IN /\ blockedOperations' =
              {k \in blockedOperations : ~StartsWith(k, userId)}
       /\ connectionAttempts' =
              [k \in {x \in DOMAIN connectionAttempts : ~StartsWith(x, userId)}
                  |-> connectionAttempts[k]]
       /\ retryAttempts' =
              [k \in (DOMAIN retryAttempts) \ keysToDelete |-> retryAttempts[k]]
       /\ lastRequestTime' =
              [k \in (DOMAIN lastRequestTime) \ keysToDelete
                  |-> lastRequestTime[k]]

ClearUserAttempts(userId) ==
    /\ clearUserAttempts(userId)
    /\ wsHist' = [k \in {x \in DOMAIN wsHist : ~StartsWith(x, userId)}
                     |-> wsHist[k]]
    /\ lastEvent' = [op |-> "clearUserAttempts", userId |-> userId,
                     hadBlocked |-> \E k \in blockedOperations :
                                       StartsWith(k, userId)]
    /\ UNCHANGED <<now, nTicks, timers, calls, gateLog, chat>>

\* emergencyReset(), lines 260-266.
EmergencyReset ==
    /\ retryAttempts' = EmptyMap
    /\ lastRequestTime' = EmptyMap
    /\ blockedOperations' = {}
    /\ connectionAttempts' = EmptyMap
    /\ wsHist' = EmptyMap
    /\ lastEvent' = NoEvent
    /\ UNCHANGED <<now, nTicks, timers, calls, gateLog, chat>>

\* A direct call of calculateBackoffDelay(attempt), the jitter drawn being
\* jitter; lastEvent holds the call and the delay returned.
CalculateBackoffDelayCall(attempt, jitter) ==
    /\ lastEvent' = [op |-> "calculateBackoffDelay", userId |-> <<>>,
                     hadBlocked |-> FALSE, attempt |-> attempt,
                     jitter |-> jitter,
                     delay |-> calculateBackoffDelay(attempt, jitter)]
    /\ UNCHANGED <<now, nTicks, handlerVars, calls, gateLog, wsHist, chat>>

\* A direct call of shouldRateLimit(userId, operation).  gateLog.obs is the
\* log of these calls: subject, operation type, time and answer.
ShouldRateLimitCall(userId, operation) ==
    LET gate == shouldRateLimit(userId, operation, lastRequestTime,
                                blockedOperations, now)
    IN /\ gateLog.n < MaxGateCalls
       /\ lastRequestTime' = gate.lastRequestTime
       /\ gateLog' = [gateLog EXCEPT
              !.n = @ + 1,
              !.obs = Append(@, [userId |-> userId, operation |-> operation,
                                 t |-> now, ret |-> gate.ret])]
       /\ lastEvent' = NoEvent
       /\ UNCHANGED <<now, nTicks, retryAttempts, connectionAttempts,
                      blockedOperations, timers, calls, wsHist, chat>>

\* A direct call of shouldRateLimitWebSocket(userId, type).
ShouldRateLimitWebSocketCall(userId, type) ==
    LET ws == shouldRateLimitWebSocket(userId, type, connectionAttempts, now)
    IN /\ gateLog.nWs < MaxWsCalls
       /\ connectionAttempts' = ws.connectionAttempts
       /\ wsHist' = WsHistAfter(wsHist, WsKey(userId, type), now, ws.ret)
       /\ gateLog' = [gateLog EXCEPT !.nWs = @ + 1]
       /\ lastEvent' = NoEvent
       /\ UNCHANGED <<now, nTicks, retryAttempts, lastRequestTime,
                      blockedOperations, timers, calls, chat>>

-----------------------------------------------------------------------------
(* ChatPage.jsx: initializeChat.  The module globals (globalStreamClient,  *)
(* channelCache, connectionPromise) outlive the component; every mount of  *)
(* the component is an instance with its own refs and state.  The          *)
(* executeWithRetry calls made here are taken by their outcome: the        *)
(* value returned, or the error thrown.                                    *)

Instances == {1, 2}
Callers == 1..NumCallers

UserB == <<"b">>

\* The UTF-16 code units of the characters of the ids, in their order.
CodeOrder == <<"-","0","1","2","3","4","5","6","7","8","9",
               "a","b","c","d","e","f">>
CharCode(ch) == CHOOSE i \in 1..Len(CodeOrder) : CodeOrder[i] = ch

\* s < t as Array.prototype.sort compares strings
StrLess(s, t) ==
    \E i \in 1..(Len(t)) :
        /\ \A j \in 1..(i - 1) : j <= Len(s) /\ s[j] = t[j]
        /\ \/ i > Len(s)
           \/ i <= Len(s) /\ CharCode(s[i]) < CharCode(t[i])

\* [authUser._id, targetUserId].sort().join("-")
ChannelId(a, b) ==
    IF StrLess(b, a) THEN b \o <<"-">> \o a ELSE a \o <<"-">> \o b

NoOutcome == [status |-> "pending", err |-> "none"]
Fulfilled == [status |-> "fulfilled", err |-> "none"]
Rejected(e) == [status |-> "rejected", err |-> e]

NoInstance ==
    [live |-> FALSE, authUser |-> <<>>, targetUserId |-> <<>>,
     mounted |-> FALSE,         \* mountedRef.current
     initializing |-> FALSE,    \* initializingRef.current
     connectionState |-> "disconnected", error |-> "none",
     loading |-> TRUE, chatClient |-> FALSE, channel |-> <<>>,
     videoToken |-> FALSE, videoClient |-> 0, autoRetry |-> FALSE]

IdleCaller ==
    [pc |-> "idle", inst |-> 0, awaiting |-> 0,
     joined |-> 0,    \* the attempt in flight when the call was made
     started |-> 0,   \* the attempt this call started itself
     outcome |-> NoOutcome]

\* the largest number of connection attempts a run starts
MaxAttempts == 3

\* The invocations of getOrCreateVideoClient and of disconnectVideoClient
\* that can be in progress at once.
VideoCalls == {1, 2}
Disconnects == {1}
\* the largest number of StreamVideoClient objects a run constructs
MaxVideoClients == 3

IdleVideoCall == [pc |-> "idle", userId |-> <<>>, client |-> 0]
IdleDisconnect ==
    [pc |-> "idle", userId |-> <<>>, client |-> 0,
     repeat |-> FALSE, before |-> <<>>]

\* A teardown run in progress: cleanupConnection, disconnectVideoClient()
\* or the call page's cleanup.  before is the state it began in, repeat
\* says that it began in the state the last run of its kind ended in.
NoRun ==
    [kind |-> "none", arg |-> <<>>, pc |-> "idle", inst |-> 0, client |-> 0,
     todo |-> {}, repeat |-> FALSE, before |-> <<>>]
\* The teardown run that ended last.
NoLast ==
    [kind |-> "none", arg |-> <<>>, after |-> <<>>, repeat |-> FALSE,
     changed |-> FALSE, rejected |-> FALSE]

\* CallPage.jsx lines 28-35: the state and the refs of the call page; joined
\* and connected are the collaborator's state of the call and the client.
InitCallPage ==
    [pc |-> "idle", isInitialized |-> FALSE, clientRef |-> FALSE,
     callRef |-> FALSE, client |-> FALSE, call |-> FALSE,
     isLoading |-> TRUE, error |-> "none",
     joined |-> FALSE, connected |-> FALSE, logged |-> 0]

\* A request to the backend: users are the users whose upsert is awaited.
IdleRequest ==
    [pc |-> "idle", handler |-> "none", userId |-> <<>>, users |-> {},
     status |-> 0]

Requests == 1..NumRequests

\* chat.controller.js line 6: userCreationCache; upserted are the users an
\* upsertUser of the platform has succeeded for, expiry the pending timers
\* of line 57.
InitBackend ==
    [userCreationCache |-> EmptyMap, upserted |-> {}, expiry |-> {},
     reqs |-> [r \in Requests |-> IdleRequest]]

\* A run of handleVideoCall: created says that call.getOrCreate resolved
\* first, sendStarted that executeWithRetry was called for the invite, sent
\* that it returned, navigated that navigate() was called.
IdleHandle ==
    [pc |-> "idle", inst |-> 0, deadline |-> 0, created |-> FALSE,
     sendStarted |-> FALSE, sent |-> FALSE, navigated |-> FALSE,
     error |-> "none", toast |-> "none"]

InitChat ==
    [client |-> [exists |-> FALSE, user |-> <<>>, owner |-> 0],
     handle |-> IdleHandle,
     channelCache |-> EmptyMap,
     cacheWrites |-> 0,         \* how often channelCache was written
     channelLog |-> <<>>,       \* the getOrCreateChannel requests that ended
     videoClientMap |-> EmptyMap,
     videoClients |-> <<>>,     \* the StreamVideoClient objects constructed
     videoCalls |-> [v \in VideoCalls |-> IdleVideoCall],
     disconnects |-> [d \in Disconnects |-> IdleDisconnect],
     callPage |-> InitCallPage,
     backend |-> InitBackend,
     teardown |-> [run |-> NoRun, last |-> NoLast],
     connectionPromise |-> 0,
     attempts |-> <<>>,
     callers |-> [k \in Callers |-> IdleCaller],
     comp |-> [i \in Instances |-> NoInstance]]

\* A getOrCreateChannel request that has not begun.
NoHandle == [id |-> <<>>, createdBy |-> 0, subject |-> <<>>]
NoRequest == [after |-> 0, writes |-> 0, handle |-> NoHandle]

\* Mutant of CacheChannel: the channel is not stored.
CacheChannel_NotStored(cache, channelId, handle) == cache

\* Line 225: channelCache.set(channelId, channel)
CacheChannel(cache, channelId, handle) == MapSet(cache, channelId, handle)

\* A getOrCreateChannel request of attempt a has ended: what it asked,
\* what it got, and what the cache held for the id before and after.
LogChannel(ch, before, a, channelId, handle, created, failed) ==
    [ch EXCEPT !.channelLog = Append(@,
        [id |-> channelId, subject |-> before.comp[before.attempts[a].inst].authUser,
         handle |-> handle, created |-> created, failed |-> failed,
         after |-> before.attempts[a].requested.after,
         writesAtStart |-> before.attempts[a].requested.writes,
         writesAtEnd |-> ch.cacheWrites,
         cachedAtEnd |-> MapHas(ch.channelCache, channelId)])]

Pending(ch) == {a \in 1..Len(ch.attempts) : ch.attempts[a].outcome.status = "pending"}

\* React: a state setter of an instance; after the unmount it does nothing.
SetState(ch, i, field, value) ==
    IF ch.comp[i].live THEN [ch EXCEPT !.comp[i][field] = value] ELSE ch

\* Lines 464-483: the component mounts; the effect sets mountedRef.
Mount(i, authUser, targetUserId) ==
    /\ ~chat.comp[i].live
    /\ chat.comp[i] = NoInstance
    /\ \A j \in Instances : j < i => (chat.comp[j] # NoInstance /\ ~chat.comp[j].live)
    /\ chat' = [chat EXCEPT !.comp[i] =
                   [NoInstance EXCEPT !.live = TRUE, !.mounted = TRUE,
                                      !.authUser = authUser,
                                      !.targetUserId = targetUserId]]
    /\ UNCHANGED <<now, nTicks, handlerVars, calls, gateLog, wsHist, lastEvent>>

\* Lines 479-482, 487-493: the component unmounts.
Unmount(i) ==
    /\ chat.comp[i].live
    /\ chat' = [chat EXCEPT !.comp[i].live = FALSE, !.comp[i].mounted = FALSE]
    /\ UNCHANGED <<now, nTicks, handlerVars, calls, gateLog, wsHist, lastEvent>>

\* Lines 178-199: getStreamClient.
getStreamClient(ch, i) ==
    IF ch.client.exists THEN ch
    ELSE [ch EXCEPT !.client = [exists |-> TRUE, user |-> <<>>, owner |-> i]]

\* Lines 326-356: the catch and finally blocks of the connection promise,
\* and its settling.
Settle(ch, a, outcome) ==
    LET i == ch.attempts[a].inst
        c1 == IF outcome.status = "rejected" /\ ch.comp[i].mounted
              THEN [ch EXCEPT
                      !.comp[i].error = outcome.err,
                      !.comp[i].autoRetry =
                          @ \/ outcome.err \in RateLimitErrors,
                      !.comp[i].connectionState = "error"]
              ELSE ch
        c2 == [c1 EXCEPT !.comp[i].initializing = FALSE,
                         !.connectionPromise = 0,
                         !.attempts[a].pc = "settled",
                         !.attempts[a].outcome = outcome]
    IN IF c2.comp[i].mounted THEN [c2 EXCEPT !.comp[i].loading = FALSE] ELSE c2

\* Lines 313-324 and 202-207: the channel id, the cache lookup.
ToChannel(ch, a) ==
    LET i == ch.attempts[a].inst
        channelId == ChannelId(ch.comp[i].authUser, ch.comp[i].targetUserId)
        c1 == [ch EXCEPT !.attempts[a].requested =
                            [after |-> Len(ch.channelLog),
                             writes |-> ch.cacheWrites,
                             handle |-> IF MapHas(ch.channelCache, channelId)
                                        THEN ch.channelCache[channelId]
                                        ELSE NoHandle]]
    IN IF MapHas(ch.channelCache, channelId)
       THEN [c1 EXCEPT !.attempts[a].pc = "channelCached"]
       ELSE [c1 EXCEPT !.attempts[a].pc = "channel"]

\* Lines 245-359: a connection attempt begins, up to its first await; the
\* caller returns connectionPromise.
StartAttempt(ch, k, i) ==
    LET a == Len(ch.attempts) + 1
        c1 == [ch EXCEPT !.comp[i].initializing = TRUE]
        c2 == SetState(SetState(SetState(c1, i, "loading", TRUE),
                                i, "error", "none"),
                       i, "connectionState", "connecting")
        c3 == getStreamClient(c2, i)
        c4 == [c3 EXCEPT
                 !.attempts = Append(@, [pc |-> "userInit", inst |-> i,
                                         requested |-> NoRequest,
                                         outcome |-> NoOutcome]),
                 !.connectionPromise = a,
                 !.callers[k].pc = "following",
                 !.callers[k].inst = i,
                 !.callers[k].awaiting = a,
                 !.callers[k].started = a]
    IN IF c4.client.user = c4.comp[i].authUser
       THEN ToChannel(IF c4.comp[i].mounted
                      THEN SetState(SetState(c4, i, "chatClient", TRUE),
                                    i, "connectionState", "connected")
                      ELSE c4, a)
       ELSE c4

\* Lines 230-243: initializeChat is called on instance i.
InitializeChat(k, i) ==
    LET own == {a \in Pending(chat) : chat.attempts[a].inst = i}
        joined == IF chat.comp[i].initializing /\ own # {}
                  THEN CHOOSE a \in own : \A b \in own : a >= b
                  ELSE chat.connectionPromise
        caller == [IdleCaller EXCEPT !.inst = i, !.joined = joined]
    IN /\ chat.callers[k].pc = "idle"
       /\ \A j \in Callers : j < k => chat.callers[j].pc # "idle"
       /\ chat.comp[i].live
       /\ IF chat.comp[i].initializing
          THEN chat' = [chat EXCEPT !.callers[k] =
                           [caller EXCEPT !.pc = "done", !.outcome = Fulfilled]]
          ELSE IF chat.connectionPromise # 0
               THEN chat' = [chat EXCEPT !.callers[k] =
                                [caller EXCEPT !.pc = "waiting",
                                     !.awaiting = chat.connectionPromise]]
               ELSE /\ Len(chat.attempts) < MaxAttempts
                    /\ chat' = StartAttempt(
                                  [chat EXCEPT !.callers[k] = caller], k, i)
       /\ UNCHANGED <<now, nTicks, handlerVars, calls, gateLog, wsHist,
                      lastEvent>>

\* Lines 238-242: the awaited connectionPromise has settled.
WaiterResumes(k) ==
    LET c == chat.callers[k]
        out == chat.attempts[c.awaiting].outcome
    IN /\ c.pc = "waiting"
       /\ out.status # "pending"
       /\ IF out.status = "fulfilled"
          THEN chat' = [chat EXCEPT !.callers[k].pc = "done",
                                    !.callers[k].outcome = Fulfilled]
          ELSE /\ Len(chat.attempts) < MaxAttempts
               /\ chat' = StartAttempt(chat, k, c.inst)
       /\ UNCHANGED <<now, nTicks, handlerVars, calls, gateLog, wsHist,
                      lastEvent>>

\* Line 359: the promise initializeChat returned settles as the
\* connection promise did.
FollowerSettles(k) ==
    LET c == chat.callers[k]
        out == chat.attempts[c.awaiting].outcome
    IN /\ c.pc = "following"
       /\ out.status # "pending"
       /\ chat' = [chat EXCEPT !.callers[k].pc = "done",
                               !.callers[k].outcome = out]
       /\ UNCHANGED <<now, nTicks, handlerVars, calls, gateLog, wsHist,
                      lastEvent>>

\* Lines 265-280: executeWithRetry(userInitOperation) returned.
UserInitReturns(a) ==
    LET i == chat.attempts[a].inst
    IN /\ a \in 1..Len(chat.attempts)
       /\ chat.attempts[a].pc = "userInit"
       /\ chat' = IF ~chat.comp[i].mounted
                  THEN Settle(chat, a, Fulfilled)
                  ELSE [SetState(chat, i, "videoToken", TRUE)
                           EXCEPT !.attempts[a].pc = "connect"]
       /\ UNCHANGED <<now, nTicks, handlerVars, calls, gateLog, wsHist,
                      lastEvent>>

\* Lines 283-311: executeWithRetry(connectOperation) returned.
ConnectReturns(a) ==
    LET i == chat.attempts[a].inst
        c1 == [chat EXCEPT !.client.user = chat.comp[i].authUser]
    IN /\ a \in 1..Len(chat.attempts)
       /\ chat.attempts[a].pc = "connect"
       /\ chat' = IF ~c1.comp[i].mounted
                  THEN [c1 EXCEPT !.attempts[a].pc = "disconnect"]
                  ELSE ToChannel(SetState(SetState(c1, i, "chatClient", TRUE),
                                          i, "connectionState", "connected"),
                                 a)
       /\ UNCHANGED <<now, nTicks, handlerVars, calls, gateLog, wsHist,
                      lastEvent>>

\* Lines 302-305: client.disconnectUser() returned.
DisconnectReturns(a) ==
    /\ a \in 1..Len(chat.attempts)
    /\ chat.attempts[a].pc = "disconnect"
    /\ chat' = Settle([chat EXCEPT !.client.user = <<>>], a, Fulfilled)
    /\ UNCHANGED <<now, nTicks, handlerVars, calls, gateLog, wsHist, lastEvent>>

\* Lines 217-226, 321-324: executeWithRetry(channelOperation) returned.
ChannelReturns(a) ==
    LET i == chat.attempts[a].inst
        channelId == ChannelId(chat.comp[i].authUser, chat.comp[i].targetUserId)
        handle == [id |-> channelId, createdBy |-> a,
                   subject |-> chat.comp[i].authUser]
        c0 == [chat EXCEPT
                 !.channelCache = CacheChannel(@, channelId, handle),
                 !.cacheWrites = IF CacheChannel(chat.channelCache, channelId,
                                                 handle) = chat.channelCache
                                 THEN @ ELSE @ + 1]
        c1 == LogChannel(c0, chat, a, channelId, handle, TRUE, FALSE)
    IN /\ a \in 1..Len(chat.attempts)
       /\ chat.attempts[a].pc = "channel"
       /\ chat' = Settle(IF c1.comp[i].mounted
                         THEN SetState(c1, i, "channel", handle) ELSE c1,
                         a, Fulfilled)
       /\ UNCHANGED <<now, nTicks, handlerVars, calls, gateLog, wsHist,
                      lastEvent>>

\* Lines 204-207, 321-324: getOrCreateChannel returned the cached channel.
ChannelCachedReturns(a) ==
    LET i == chat.attempts[a].inst
        channelId == ChannelId(chat.comp[i].authUser, chat.comp[i].targetUserId)
        handle == chat.attempts[a].requested.handle
        c1 == LogChannel(chat, chat, a, channelId, handle, FALSE, FALSE)
    IN /\ a \in 1..Len(chat.attempts)
       /\ chat.attempts[a].pc = "channelCached"
       /\ chat' = Settle(IF c1.comp[i].mounted
                         THEN SetState(c1, i, "channel", handle)
                         ELSE c1,
                         a, Fulfilled)
       /\ UNCHANGED <<now, nTicks, handlerVars, calls, gateLog, wsHist,
                      lastEvent>>

\* Lines 326-349: an awaited step of the attempt threw e.
AttemptThrows(a, e) ==
    /\ a \in 1..Len(chat.attempts)
    /\ chat.attempts[a].pc \in {"userInit", "connect", "disconnect", "channel"}
    /\ chat' = Settle(IF chat.attempts[a].pc = "channel"
                      THEN LogChannel(chat, chat, a,
                               ChannelId(chat.comp[chat.attempts[a].inst].authUser,
                                         chat.comp[chat.attempts[a].inst].targetUserId),
                               NoHandle, FALSE, TRUE)
                      ELSE chat,
                      a, Rejected(e))
    /\ UNCHANGED <<now, nTicks, handlerVars, calls, gateLog, wsHist, lastEvent>>

-----------------------------------------------------------------------------
(* ChatPage.jsx: the video clients.  A StreamVideoClient object is a       *)
(* record of videoClients: the user it holds (client.user) and whether it  *)
(* is connected.  videoClientMap maps a user id to such an object.         *)

\* Lines 34-94: getOrCreateVideoClient up to its await (or its return of
\* the existing client).
GetOrCreateVideoClient(v, userId) ==
    LET existing == IF MapHas(chat.videoClientMap, userId)
                    THEN chat.videoClientMap[userId] ELSE 0
        reuse == existing # 0 /\ chat.videoClients[existing].user = userId
        c == Len(chat.videoClients) + 1
    IN /\ chat.videoCalls[v].pc \in {"idle", "done", "threw"}
       /\ IF reuse
          THEN chat' = [chat EXCEPT !.videoCalls[v] =
                           [pc |-> "done", userId |-> userId,
                            client |-> existing]]
          ELSE /\ Len(chat.videoClients) < MaxVideoClients
               /\ chat' = [chat EXCEPT
                     !.videoClients = Append(@, [user |-> userId,
                                                 connected |-> FALSE]),
                     !.videoCalls[v] = [pc |-> "connecting",
                                        userId |-> userId, client |-> c]]
       /\ UNCHANGED <<now, nTicks, handlerVars, calls, gateLog, wsHist,
                      lastEvent>>

\* Lines 75-88: videoClient.connectUser returned; the client is stored.
VideoConnectReturns(v) ==
    LET call == chat.videoCalls[v]
    IN /\ call.pc = "connecting"
       /\ chat' = [chat EXCEPT
             !.videoClients[call.client].connected = TRUE,
             !.videoClientMap = MapSet(@, call.userId, call.client),
             !.videoCalls[v].pc = "done"]
       /\ UNCHANGED <<now, nTicks, handlerVars, calls, gateLog, wsHist,
                      lastEvent>>

\* Lines 89-92: videoClient.connectUser threw; the error is rethrown.
VideoConnectThrows(v) ==
    /\ chat.videoCalls[v].pc = "connecting"
    /\ chat' = [chat EXCEPT !.videoCalls[v].pc = "threw"]
    /\ UNCHANGED <<now, nTicks, handlerVars, calls, gateLog, wsHist, lastEvent>>

\* Lines 68-72: the 'connection.error' listener of client c.
VideoConnectionError(c) ==
    /\ c \in 1..Len(chat.videoClients)
    /\ MapHas(chat.videoClientMap, chat.videoClients[c].user)
    /\ chat' = [chat EXCEPT
          !.videoClientMap = MapDelete(@, chat.videoClients[c].user)]
    /\ lastEvent' = [op |-> "connection.error",
                     userId |-> chat.videoClients[c].user,
                     hadBlocked |-> FALSE, client |-> c]
    /\ UNCHANGED <<now, nTicks, handlerVars, calls, gateLog, wsHist>>

\* What a teardown works on: the handles, the page state and the rate
\* limit handler's maps.
TeardownView(ch, ra, lrt, ca, blocked) ==
    [client |-> ch.client, channelCache |-> ch.channelCache,
     connectionPromise |-> ch.connectionPromise,
     videoClientMap |-> ch.videoClientMap, videoClients |-> ch.videoClients,
     comp |-> ch.comp,
     callPage |-> [ch.callPage EXCEPT !.pc = "idle", !.logged = 0],
     handler |-> <<ra, lrt, ca, blocked>>]

View(ch) ==
    TeardownView(ch, retryAttempts, lastRequestTime, connectionAttempts,
                 blockedOperations)

IsRepeat(ch, kind, arg, view) ==
    /\ ch.teardown.last.kind = kind
    /\ ch.teardown.last.arg = arg
    /\ ch.teardown.last.after = view

\* A teardown run ended in state ch: rejected says whether its promise
\* rejected.
Ended(ch, kind, arg, repeat, before, view, rejected) ==
    [ch EXCEPT !.teardown.last =
        [kind |-> kind, arg |-> arg, after |-> view, repeat |-> repeat,
         changed |-> view # before, rejected |-> rejected]]

\* Lines 97-100: disconnectVideoClient(userId) up to its await.
DisconnectVideoClient(d, userId) ==
    LET client == IF MapHas(chat.videoClientMap, userId)
                  THEN chat.videoClientMap[userId] ELSE 0
        repeat == IsRepeat(chat, "disconnectVideoClient", userId, View(chat))
        c1 == [chat EXCEPT !.disconnects[d] =
                  [pc |-> IF client = 0 THEN "done" ELSE "disconnecting",
                   userId |-> userId, client |-> client,
                   repeat |-> repeat,
                   before |-> IF client = 0 THEN <<>> ELSE View(chat)]]
    IN /\ chat.disconnects[d].pc \in {"idle", "done"}
       /\ chat' = IF client = 0
                  THEN Ended(c1, "disconnectVideoClient", userId, repeat,
                             View(chat), View(chat), FALSE)
                  ELSE c1
       /\ UNCHANGED <<now, nTicks, handlerVars, calls, gateLog, wsHist,
                      lastEvent>>

\* Lines 102-108: client.disconnectUser() returned, or threw (ok = FALSE)
\* and the error was logged; the map entry of the user is deleted.
VideoDisconnectEnds(d, ok) ==
    LET dis == chat.disconnects[d]
        c1 == [chat EXCEPT
                 !.videoClients[dis.client] =
                     IF ok THEN [user |-> <<>>, connected |-> FALSE] ELSE @,
                 !.videoClientMap = MapDelete(@, dis.userId),
                 !.disconnects[d].pc = "done",
                 !.disconnects[d].before = <<>>]
    IN /\ dis.pc = "disconnecting"
       /\ chat' = Ended(c1, "disconnectVideoClient", dis.userId, dis.repeat,
                        dis.before, View(c1), FALSE)
       /\ UNCHANGED <<now, nTicks, handlerVars, calls, gateLog, wsHist,
                      lastEvent>>

\* The connected video clients of a user.
LiveVideoClients(userId) ==
    {c \in 1..Len(chat.videoClients) :
        chat.videoClients[c].connected /\ chat.videoClients[c].user = userId}

-----------------------------------------------------------------------------
(* Teardown: ChatPage.jsx cleanupConnection and disconnectVideoClient(),   *)
(* CallPage.jsx cleanup.  One run at a time is followed through its        *)
(* awaits in chat.teardown.run.                                            *)

\* A teardown run begins in state ch.
Began(ch, kind, arg, pc, view) ==
    [ch EXCEPT !.teardown.run =
        [NoRun EXCEPT !.kind = kind, !.arg = arg, !.pc = pc,
                      !.repeat = IsRepeat(ch, kind, arg, view),
                      !.before = view]]

\* The run in progress has ended.
RunEnded(ch, view, rejected) ==
    LET run == ch.teardown.run
    IN [Ended(ch, run.kind, run.arg, run.repeat, run.before, view, rejected)
           EXCEPT !.teardown.run = NoRun]

\* Lines 155-165: the end of cleanupConnection's try block.
CleanupTail(ch, i) ==
    LET c1 == [ch EXCEPT
                 !.client = [exists |-> FALSE, user |-> <<>>, owner |-> 0],
                 !.channelCache = EmptyMap,
                 !.cacheWrites = IF ch.channelCache = EmptyMap THEN @ ELSE @ + 1,
                 !.connectionPromise = 0]
    IN IF c1.comp[i].mounted
       THEN [c1 EXCEPT !.comp[i].chatClient = FALSE,
                       !.comp[i].channel = <<>>,
                       !.comp[i].videoClient = 0,
                       !.comp[i].connectionState = "disconnected",
                       !.comp[i].error = "none"]
       ELSE c1

\* Lines 151-153: if (globalStreamClient?.user) await disconnectUser()
CleanupAfterVideo(ch, i, ra, lrt, ca, blocked) ==
    IF ch.client.exists /\ ch.client.user # <<>>
    THEN [ch EXCEPT !.teardown.run.pc = "chatDisconnect"]
    ELSE LET c1 == CleanupTail(ch, i)
         IN RunEnded(c1, TeardownView(c1, ra, lrt, ca, blocked), FALSE)

\* Lines 141-149: cleanupConnection of instance i, up to its first await.
CleanupConnection(i) ==
    LET userId == chat.comp[i].authUser
        client == IF MapHas(chat.videoClientMap, userId)
                  THEN chat.videoClientMap[userId] ELSE 0
        c1 == [Began(chat, "cleanupConnection", userId, "begun", View(chat))
                  EXCEPT !.teardown.run.inst = i,
                         !.teardown.run.client = client]
    IN /\ chat.teardown.run.pc = "idle"
       /\ chat.comp[i].live
       /\ clearUserAttempts(userId)
       /\ wsHist' = [k \in {x \in DOMAIN wsHist : ~StartsWith(x, userId)}
                        |-> wsHist[k]]
       /\ lastEvent' = [op |-> "clearUserAttempts", userId |-> userId,
                        hadBlocked |-> \E k \in blockedOperations :
                                          StartsWith(k, userId)]
       /\ chat' = IF client # 0
                  THEN [c1 EXCEPT !.teardown.run.pc = "videoDisconnect"]
                  ELSE CleanupAfterVideo(c1, i, retryAttempts',
                           lastRequestTime', connectionAttempts',
                           blockedOperations')
       /\ UNCHANGED <<now, nTicks, timers, calls, gateLog>>

\* Lines 101-108, 151: the video client's disconnectUser() returned, or
\* threw (ok = FALSE) and the error was logged.
CleanupVideoEnds(ok) ==
    LET run == chat.teardown.run
        c1 == [chat EXCEPT
                 !.videoClients[run.client] =
                     IF ok THEN [user |-> <<>>, connected |-> FALSE] ELSE @,
                 !.videoClientMap = MapDelete(@, run.arg)]
    IN /\ run.kind = "cleanupConnection"
       /\ run.pc = "videoDisconnect"
       /\ chat' = CleanupAfterVideo(c1, run.inst, retryAttempts,
                      lastRequestTime, connectionAttempts, blockedOperations)
       /\ UNCHANGED <<now, nTicks, handlerVars, calls, gateLog, wsHist,
                      lastEvent>>

\* Lines 152-168: globalStreamClient.disconnectUser() returned, or threw
\* (ok = FALSE) into the catch block; cleared says whether the client
\* that threw had dropped its user.
CleanupChatEnds(ok, cleared) ==
    LET run == chat.teardown.run
        c1 == IF ok
              THEN CleanupTail([chat EXCEPT !.client.user = <<>>], run.inst)
              ELSE IF cleared THEN [chat EXCEPT !.client.user = <<>>]
                   ELSE chat
    IN /\ run.kind = "cleanupConnection"
       /\ run.pc = "chatDisconnect"
       /\ ok => cleared
       /\ chat' = RunEnded(c1, View(c1), FALSE)
       /\ UNCHANGED <<now, nTicks, handlerVars, calls, gateLog, wsHist,
                      lastEvent>>

\* Lines 110-121: disconnectVideoClient(), up to its first await.
DisconnectAllVideoClients ==
    LET c1 == Began(chat, "disconnectVideoClient", <<>>, "begun", View(chat))
    IN /\ chat.teardown.run.pc = "idle"
       /\ chat' = IF DOMAIN chat.videoClientMap = {}
                  THEN RunEnded(c1, View(c1), FALSE)
                  ELSE [c1 EXCEPT !.teardown.run.pc = "disconnectAll",
                                  !.teardown.run.todo =
                                      DOMAIN chat.videoClientMap]
       /\ UNCHANGED <<now, nTicks, handlerVars, calls, gateLog, wsHist,
                      lastEvent>>

\* Lines 112-120: the disconnectUser() of the entry of userId returned, or
\* threw (ok = FALSE) and the error was logged; after the last entry the
\* map is cleared.
DisconnectAllStep(userId, ok) ==
    LET run == chat.teardown.run
        c1 == [chat EXCEPT
                 !.videoClients[chat.videoClientMap[userId]] =
                     IF ok THEN [user |-> <<>>, connected |-> FALSE] ELSE @,
                 !.teardown.run.todo = @ \ {userId}]
        c2 == [c1 EXCEPT !.videoClientMap = EmptyMap]
    IN /\ run.pc = "disconnectAll"
       /\ userId \in run.todo
       /\ chat' = IF run.todo = {userId}
                  THEN RunEnded(c2, View(c2), FALSE)
                  ELSE c1
       /\ UNCHANGED <<now, nTicks, handlerVars, calls, gateLog, wsHist,
                      lastEvent>>

\* "already been left"
AlreadyLeftIndicator ==
    <<"a","l","r","e","a","d","y"," ","b","e","e","n"," ","l","e","f","t">>

\* The errors the collaborator's leave() throws.
LeaveErrors == {"EAlreadyLeft", "EOther"}

\* CallPage.jsx lines 84-123: initializeCall up to its await of join().
InitializeCall ==
    /\ ~chat.callPage.isInitialized
    /\ chat' = [chat EXCEPT !.callPage =
                   [@ EXCEPT !.pc = "joining", !.isInitialized = TRUE,
                             !.isLoading = TRUE, !.error = "none",
                             !.clientRef = TRUE, !.callRef = TRUE]]
    /\ UNCHANGED <<now, nTicks, handlerVars, calls, gateLog, wsHist, lastEvent>>

\* CallPage.jsx lines 125-132, 141-143: join() returned.
JoinReturns ==
    /\ chat.callPage.pc = "joining"
    /\ chat' = [chat EXCEPT !.callPage =
                   [@ EXCEPT !.pc = "joined", !.client = TRUE, !.call = TRUE,
                             !.error = "none", !.isLoading = FALSE,
                             !.joined = TRUE, !.connected = TRUE]]
    /\ UNCHANGED <<now, nTicks, handlerVars, calls, gateLog, wsHist, lastEvent>>

\* CallPage.jsx lines 47-52, 63-64, 74-76: cleanup up to its first await.
CallCleanupBegins(ch) ==
    LET c1 == Began(ch, "cleanup", <<>>, "begun", View(ch))
    IN IF ch.callPage.callRef
       THEN [c1 EXCEPT !.teardown.run.pc = "leaving"]
       ELSE IF ch.callPage.clientRef
            THEN [c1 EXCEPT !.teardown.run.pc = "disconnecting"]
            ELSE LET c2 == [c1 EXCEPT !.callPage.client = FALSE,
                                      !.callPage.call = FALSE]
                 IN RunEnded(c2, View(c2), FALSE)

\* CallPage.jsx lines 134-140: join() threw e; connected says whether the
\* client had connected.  The error is set and cleanup is awaited.
JoinThrows(e, connected) ==
    /\ chat.callPage.pc = "joining"
    /\ chat.teardown.run.pc = "idle"
    /\ chat' = CallCleanupBegins(
                  [chat EXCEPT !.callPage.pc = "cleaning",
                               !.callPage.error = e,
                               !.callPage.connected = connected])
    /\ UNCHANGED <<now, nTicks, handlerVars, calls, gateLog, wsHist, lastEvent>>

\* CallPage.jsx lines 141-143: the cleanup awaited by initializeCall ended.
InitializeCallFinally ==
    /\ chat.callPage.pc = "cleaning"
    /\ chat.teardown.run.pc = "idle"
    /\ chat' = [chat EXCEPT !.callPage.pc = "failed",
                            !.callPage.isLoading = FALSE]
    /\ UNCHANGED <<now, nTicks, handlerVars, calls, gateLog, wsHist, lastEvent>>

\* CallPage.jsx lines 47-81, 155-171: cleanup is called (on unmount, on
\* beforeunload).
CallCleanup ==
    /\ chat.teardown.run.pc = "idle"
    /\ chat' = CallCleanupBegins(chat)
    /\ UNCHANGED <<now, nTicks, handlerVars, calls, gateLog, wsHist, lastEvent>>

\* CallPage.jsx lines 53-61: callRef.current.leave() returned ("ok") or
\* threw the error outcome.
CallLeaveEnds(outcome) ==
    LET run == chat.teardown.run
        logs == outcome # "ok"
                /\ ~Includes(Message(outcome), AlreadyLeftIndicator)
        c1 == [chat EXCEPT
                 !.callPage.joined = IF outcome = "ok" THEN FALSE ELSE @,
                 !.callPage.logged = IF logs THEN 1 ELSE @,
                 !.callPage.callRef = FALSE]
        c2 == [c1 EXCEPT !.callPage.client = FALSE, !.callPage.call = FALSE]
    IN /\ run.kind = "cleanup"
       /\ run.pc = "leaving"
       /\ chat' = IF c1.callPage.clientRef
                  THEN [c1 EXCEPT !.teardown.run.pc = "disconnecting"]
                  ELSE RunEnded(c2, View(c2), FALSE)
       /\ UNCHANGED <<now, nTicks, handlerVars, calls, gateLog, wsHist,
                      lastEvent>>

\* CallPage.jsx lines 64-76: clientRef.current.disconnectUser() returned,
\* or threw (ok = FALSE) and the error was logged.
CallDisconnectEnds(ok) ==
    LET run == chat.teardown.run
        c1 == [chat EXCEPT
                 !.callPage.connected = IF ok THEN FALSE ELSE @,
                 !.callPage.clientRef = FALSE,
                 !.callPage.client = FALSE, !.callPage.call = FALSE]
    IN /\ run.kind = "cleanup"
       /\ run.pc = "disconnecting"
       /\ chat' = RunEnded(c1, View(c1), FALSE)
       /\ UNCHANGED <<now, nTicks, handlerVars, calls, gateLog, wsHist,
                      lastEvent>>

-----------------------------------------------------------------------------
(* ChatPage.jsx: handleVideoCall.  The awaited getOrCreateVideoClient and  *)
(* executeWithRetry calls are taken by their outcome.                      *)

\* Line 411: the ceiling on call creation, in milliseconds.
CallTimeout == 10000

\* Lines 394-415: the call is created, racing the timer.
BeginCall(ch) ==
    [ch EXCEPT !.handle.pc = "creating",
               !.handle.deadline = now + CallTimeout]

\* Lines 363-383: handleVideoCall of instance i up to its first await.
HandleVideoCall(i) ==
    LET c == chat.comp[i]
        run == [IdleHandle EXCEPT !.inst = i]
    IN /\ chat.handle.pc \in {"idle", "done"}
       /\ c.live
       /\ chat' =
            IF c.channel = <<>> \/ c.connectionState # "connected"
            THEN [chat EXCEPT !.handle = [run EXCEPT !.pc = "done",
                                                    !.toast = "notReady"]]
            ELSE IF ~c.videoToken
            THEN [chat EXCEPT !.handle = [run EXCEPT !.pc = "done",
                                                    !.toast = "noToken"]]
            ELSE IF c.videoClient = 0
            THEN [chat EXCEPT !.handle = [run EXCEPT !.pc = "videoClient"]]
            ELSE BeginCall([chat EXCEPT !.handle = run])
       /\ UNCHANGED <<now, nTicks, handlerVars, calls, gateLog, wsHist,
                      lastEvent>>

\* Lines 379-392: getOrCreateVideoClient returned a client, the cached one
\* or a new one it connected and stored.
HandleVideoClientReturns ==
    LET i == chat.handle.inst
        userId == chat.comp[i].authUser
        existing == IF MapHas(chat.videoClientMap, userId)
                    THEN chat.videoClientMap[userId] ELSE 0
        reuse == existing # 0 /\ chat.videoClients[existing].user = userId
        c == IF reuse THEN existing ELSE Len(chat.videoClients) + 1
        c1 == IF reuse THEN chat
              ELSE [chat EXCEPT
                      !.videoClients = Append(@, [user |-> userId,
                                                  connected |-> TRUE]),
                      !.videoClientMap = MapSet(@, userId, c)]
    IN /\ chat.handle.pc = "videoClient"
       /\ reuse \/ Len(chat.videoClients) < MaxVideoClients
       /\ chat' = BeginCall(IF c1.comp[i].mounted
                            THEN SetState(c1, i, "videoClient", c) ELSE c1)
       /\ UNCHANGED <<now, nTicks, handlerVars, calls, gateLog, wsHist,
                      lastEvent>>

\* Lines 442-461: the catch block; the run ends with error e.
HandleVideoCallCatch(ch, e) ==
    LET i == ch.handle.inst
        userId == ch.comp[i].authUser
        toast == IF Includes(Message(e), <<"t","i","m","e","d"," ","o","u","t">>)
                 THEN "timedOut"
                 ELSE IF isRateLimitError(e) THEN "rateLimit"
                 ELSE IF Includes(Message(e),
                                  <<"W","e","b","S","o","c","k","e","t">>)
                 THEN "connection"
                 ELSE "failed"
        c1 == IF toast = "connection"
              THEN SetState([ch EXCEPT !.videoClientMap = MapDelete(@, userId)],
                            i, "videoClient", 0)
              ELSE ch
    IN [c1 EXCEPT !.handle.pc = "done", !.handle.error = e,
                  !.handle.toast = toast]

\* Mutant of CallTimerFires: the timer does not end the run.
CallTimerFires_Continues ==
    /\ chat.handle.pc = "creating"
    /\ now >= chat.handle.deadline
    /\ chat' = [chat EXCEPT !.handle.pc = "sending",
                            !.handle.sendStarted = TRUE]
    /\ UNCHANGED <<now, nTicks, handlerVars, calls, gateLog, wsHist, lastEvent>>

\* Lines 410-414: the timer of the race fires first; Promise.race rejects
\* with 'Call creation timed out'.
CallTimerFires ==
    /\ chat.handle.pc = "creating"
    /\ now >= chat.handle.deadline
    /\ chat' = HandleVideoCallCatch(chat, "ETimedOut")
    /\ UNCHANGED <<now, nTicks, handlerVars, calls, gateLog, wsHist, lastEvent>>

\* Lines 400-433: call.getOrCreate resolved first; executeWithRetry is called
\* for the invite message.
CallCreateReturns ==
    /\ chat.handle.pc = "creating"
    /\ chat' = [chat EXCEPT !.handle.pc = "sending",
                            !.handle.created = TRUE,
                            !.handle.sendStarted = TRUE]
    /\ UNCHANGED <<now, nTicks, handlerVars, calls, gateLog, wsHist, lastEvent>>

\* Lines 428-440: executeWithRetry returned; the page navigates to the call.
SendMessageReturns ==
    /\ chat.handle.pc = "sending"
    /\ chat' = [chat EXCEPT !.handle.pc = "done",
                            !.handle.sent = TRUE,
                            !.handle.navigated = TRUE,
                            !.handle.toast = "success"]
    /\ UNCHANGED <<now, nTicks, handlerVars, calls, gateLog, wsHist, lastEvent>>

\* Lines 379, 414, 428: the awaited call of the run threw e.
HandleVideoCallThrows(e) ==
    /\ chat.handle.pc \in {"videoClient", "creating", "sending"}
    /\ chat' = HandleVideoCallCatch(chat, e)
    /\ UNCHANGED <<now, nTicks, handlerVars, calls, gateLog, wsHist, lastEvent>>

-----------------------------------------------------------------------------
(* Backend: chat.controller.js getStreamToken and initializeChatUsers,     *)
(* lib/stream.js upsertStreamUser, which rethrows the platform's error.    *)

\* chat.controller.js line 57: 5 * 60 * 1000
CacheLifetime == 300000

\* A response with the given status is sent for request r.
Respond(be, r, status) ==
    [be EXCEPT !.reqs[r].pc = "done", !.reqs[r].status = status]

\* chat.controller.js lines 43-51: getStreamToken up to its await of
\* upsertStreamUser; userId is <<>> when the request has no user.
GetStreamToken(r, userId) ==
    LET be == [chat.backend EXCEPT
                 !.reqs[r] = [IdleRequest EXCEPT !.handler = "getStreamToken",
                                                 !.userId = userId]]
    IN /\ chat.backend.reqs[r].pc \in {"idle", "done"}
       /\ chat' = [chat EXCEPT !.backend =
                      IF userId = <<>>
                      THEN Respond(be, r, 401)
                      ELSE IF ~MapHas(be.userCreationCache, userId)
                           THEN [be EXCEPT !.reqs[r].pc = "upsert",
                                           !.reqs[r].users = {userId}]
                           ELSE Respond(be, r, 200)]
       /\ UNCHANGED <<now, nTicks, handlerVars, calls, gateLog, wsHist,
                      lastEvent>>

\* chat.controller.js lines 51-73, stream.js lines 38-49: the upsert awaited
\* by getStreamToken returned (ok) or threw.
TokenUpsertEnds(r, ok) ==
    LET be == chat.backend
        userId == be.reqs[r].userId
        b1 == [be EXCEPT
                 !.upserted = @ \cup {userId},
                 !.userCreationCache = MapSet(@, userId, now),
                 !.expiry = @ \cup {[userId |-> userId,
                                      due |-> now + CacheLifetime]}]
    IN /\ be.reqs[r].pc = "upsert"
       /\ be.reqs[r].handler = "getStreamToken"
       /\ chat' = [chat EXCEPT !.backend =
                      IF ok THEN Respond(b1, r, 200) ELSE Respond(be, r, 500)]
       /\ UNCHANGED <<now, nTicks, handlerVars, calls, gateLog, wsHist,
                      lastEvent>>

\* chat.controller.js line 57: the timer of a cache entry fires.
CacheExpires(t) ==
    /\ t \in chat.backend.expiry
    /\ now >= t.due
    /\ chat' = [chat EXCEPT
                   !.backend.userCreationCache = MapDelete(@, t.userId),
                   !.backend.expiry = @ \ {t}]
    /\ UNCHANGED <<now, nTicks, handlerVars, calls, gateLog, wsHist, lastEvent>>

\* chat.controller.js lines 79-117: initializeChatUsers up to its await of
\* the upserts; found says whether User.findById found the target user.
InitializeChatUsers(r, currentUserId, targetUserId, found) ==
    LET be == [chat.backend EXCEPT
                 !.reqs[r] = [IdleRequest EXCEPT
                                 !.handler = "initializeChatUsers",
                                 !.userId = currentUserId]]
        usersToCreate == {u \in {currentUserId, targetUserId} :
                             ~MapHas(be.userCreationCache, u)}
        cached == [u \in (DOMAIN be.userCreationCache) \cup usersToCreate |->
                      IF u \in usersToCreate THEN now
                      ELSE be.userCreationCache[u]]
        b1 == [be EXCEPT !.userCreationCache = cached]
    IN /\ chat.backend.reqs[r].pc \in {"idle", "done"}
       /\ chat' = [chat EXCEPT !.backend =
                      IF currentUserId = <<>> THEN Respond(be, r, 401)
                      ELSE IF targetUserId = <<>> THEN Respond(be, r, 400)
                      ELSE IF currentUserId = targetUserId
                           THEN Respond(be, r, 400)
                      ELSE IF ~found THEN Respond(be, r, 404)
                      ELSE IF usersToCreate # {}
                           THEN [b1 EXCEPT !.reqs[r].pc = "upsert",
                                           !.reqs[r].users = usersToCreate]
                           ELSE Respond(b1, r, 200)]
       /\ UNCHANGED <<now, nTicks, handlerVars, calls, gateLog, wsHist,
                      lastEvent>>

\* chat.controller.js lines 119-143, stream.js lines 38-49: the upserts
\* awaited by initializeChatUsers ended; those of ok returned, the others
\* threw.
UsersUpsertEnd(r, ok) ==
    LET be == chat.backend
        b1 == [be EXCEPT !.upserted = @ \cup ok]
    IN /\ be.reqs[r].pc = "upsert"
       /\ be.reqs[r].handler = "initializeChatUsers"
       /\ ok \subseteq be.reqs[r].users
       /\ chat' = [chat EXCEPT !.backend =
                      IF ok = be.reqs[r].users
                      THEN Respond(b1, r, 200) ELSE Respond(b1, r, 500)]
       /\ UNCHANGED <<now, nTicks, handlerVars, calls, gateLog, wsHist,
                      lastEvent>>

-----------------------------------------------------------------------------
(* Specifications *)

Init ==
    /\ now = 1000000
    /\ nTicks = 0
    /\ retryAttempts = EmptyMap
    /\ lastRequestTime = EmptyMap
    /\ connectionAttempts = EmptyMap
    /\ blockedOperations = {}
    /\ timers = {}
    /\ calls = [c \in Calls |-> IdleCall]
    /\ gateLog = [n |-> 0, nWs |-> 0, obs |-> <<>>]
    /\ wsHist = EmptyMap
    /\ lastEvent = NoEvent
    /\ chat = InitChat

\* Concurrent use of the coordinator: two calls overlap with each other,
\* with clearUserAttempts and emergencyReset, with timers and with time.
SpecUsers == {UserA}
SpecOps == {OpUserConnect, OpDefault}
SpecErrors == {"E429", "ENetwork", "EOther"}
TickSteps == {300000}

Next ==
    \/ \E c \in Calls, u \in SpecUsers, op \in SpecOps,
          n \in 0..MaxRetriesArg, j \in JitterChoices :
          /\ calls[c].pc = "idle"
          /\ IF c = 1 THEN TRUE ELSE calls[c - 1].pc # "idle"
          /\ ExecuteWithRetry(c, u, op, n, j)
    \/ \E c \in Calls : WakeThrottle(c)
    \/ \E c \in Calls, v \in OpValues : OpReturns(c, v)
    \/ \E c \in Calls, e \in SpecErrors, j \in JitterChoices : OpThrows(c, e, j)
    \/ \E c \in Calls, j \in JitterChoices : WakeBackoff(c, j)
    \/ \E t \in timers : TimerFires(t)
    \/ \E d \in TickSteps : Tick(d, MaxTicks)
    \/ \E u \in SpecUsers : ClearUserAttempts(u)
    \/ EmergencyReset

Spec == Init /\ [][Next]_vars

\* One external call on a handler without state, left alone until it ends.
SoloOps == {OpVideoCall, OpSendMessage}
SoloErrors == {"E429", "EBoth", "EOther"}
SoloTickSteps == {4000, 61000}

NextSolo ==
    \/ \E op \in SoloOps, n \in 0..SoloRetriesArg, j \in JitterChoices :
          /\ calls[1].pc = "idle"
          /\ ExecuteWithRetry(1, UserA, op, n, j)
    \/ WakeThrottle(1)
    \/ \E v \in OpValues : OpReturns(1, v)
    \/ \E e \in SoloErrors, j \in JitterChoices : OpThrows(1, e, j)
    \/ \E j \in JitterChoices : WakeBackoff(1, j)
    \/ \E t \in timers : TimerFires(t)
    \/ \E d \in SoloTickSteps : Tick(d, MaxSoloTicks)

SpecSolo == Init /\ [][NextSolo]_vars

\* The rate limit gate called directly, with time passing between calls.
GateTickSteps == {1000, 2000}

NextGate ==
    \/ \E op \in OpTypes : ShouldRateLimitCall(UserA, op)
    \/ \E d \in GateTickSteps : Tick(d, MaxGateTicks)

SpecGate == Init /\ [][NextGate]_vars

\* The rate limit gate called directly while a call of executeWithRetry
\* fails and blocks its key.  The block lasts longer than the time that
\* passes here.
BlockedGateOps == {OpDefault, OpSendMessage}

NextBlockedGate ==
    \/ \E op \in BlockedGateOps : ShouldRateLimitCall(UserA, op)
    \/ \E j \in JitterChoices :
          /\ calls[1].pc = "idle"
          /\ ExecuteWithRetry(1, UserA, OpDefault, 0, j)
    \/ WakeThrottle(1)
    \/ \E j \in JitterChoices : OpThrows(1, "E429", j)
    \/ \E d \in GateTickSteps : Tick(d, MaxGateTicks)

SpecBlockedGate == Init /\ [][NextBlockedGate]_vars

\* The handler with its timers: the clock reaches every deadline and every
\* due callback runs.
NextLive ==
    \/ \E c \in Calls, op \in {OpDefault}, n \in 0..MaxRetriesArg,
          j \in JitterChoices :
          /\ calls[c].pc = "idle"
          /\ IF c = 1 THEN TRUE ELSE calls[c - 1].pc # "idle"
          /\ ExecuteWithRetry(c, UserA, op, n, j)
    \/ \E c \in Calls : WakeThrottle(c)
    \/ \E c \in Calls, v \in OpValues : OpReturns(c, v)
    \/ \E c \in Calls, e \in {"E429", "EOther"}, j \in JitterChoices :
          OpThrows(c, e, j)
    \/ \E c \in Calls, j \in JitterChoices : WakeBackoff(c, j)
    \/ \E t \in timers : TimerFires(t)
    \/ \E t \in timers : TimerDeadline(t)
    \/ \E d \in TickSteps : Tick(d, MaxTicks)
    \/ ClearUserAttempts(UserA)

SpecLive ==
    /\ Init
    /\ [][NextLive]_vars
    /\ WF_vars(\E t \in timers : TimerFires(t))
    /\ WF_vars(\E t \in timers : TimerDeadline(t))

\* The WebSocket attempt gate called directly, with time passing.
WsTickSteps == {300000}

NextWs ==
    \/ \E type \in {OpUserConnect, OpVideoCall} :
          ShouldRateLimitWebSocketCall(UserA, type)
    \/ \E d \in WsTickSteps : Tick(d, MaxTicks)

SpecWs == Init /\ [][NextWs]_vars

\* Two subjects, the id of one a prefix of the id of the other: failing calls
\* fill the maps, clearUserAttempts empties them.
NextPrefix ==
    \/ \E c \in Calls, u \in Users, j \in JitterChoices :
          /\ calls[c].pc = "idle"
          /\ ExecuteWithRetry(c, u, OpUserConnect, 1, j)
    \/ \E c \in Calls, j \in JitterChoices : OpThrows(c, "E429", j)
    \/ \E c \in Calls, j \in JitterChoices : WakeBackoff(c, j)
    \/ \E d \in {4000} : Tick(d, MaxTicks)
    \/ \E u \in Users : ClearUserAttempts(u)

SpecPrefix == Init /\ [][NextPrefix]_vars

\* The backoff delay computed directly, once, for every attempt count and
\* jitter.
NextBackoff ==
    \E attempt \in 0..MaxBackoffAttempt, jitter \in Jitters :
        /\ lastEvent = NoEvent
        /\ CalculateBackoffDelayCall(attempt, jitter)

SpecBackoff == Init /\ [][NextBackoff]_vars

\* The chat page: mounts and unmounts, calls of initializeChat, and the
\* steps of the connection attempts.
ChatErrors == {"ERateExceeded", "EOther"}
\* <<authUser._id, targetUserId>> of a mount
ChatPairs == {<<UserA, UserB>>, <<UserB, UserA>>}

NextChat ==
    \/ \E i \in Instances, p \in ChatPairs : Mount(i, p[1], p[2])
    \/ \E i \in Instances : Unmount(i)
    \/ \E k \in Callers, i \in Instances : InitializeChat(k, i)
    \/ \E k \in Callers : WaiterResumes(k)
    \/ \E k \in Callers : FollowerSettles(k)
    \/ \E a \in 1..MaxAttempts : UserInitReturns(a)
    \/ \E a \in 1..MaxAttempts : ConnectReturns(a)
    \/ \E a \in 1..MaxAttempts : DisconnectReturns(a)
    \/ \E a \in 1..MaxAttempts : ChannelReturns(a)
    \/ \E a \in 1..MaxAttempts : ChannelCachedReturns(a)
    \/ \E a \in 1..MaxAttempts, e \in ChatErrors : AttemptThrows(a, e)

SpecChat == Init /\ [][NextChat]_vars

\* The chat page of one user with one peer: the channel requests of its
\* connection attempts.
ChannelErrors == {"EOther"}

NextChannel ==
    \/ \E i \in Instances : Mount(i, UserA, UserB)
    \/ \E i \in Instances : Unmount(i)
    \/ \E k \in Callers, i \in Instances : InitializeChat(k, i)
    \/ \E k \in Callers : WaiterResumes(k)
    \/ \E k \in Callers : FollowerSettles(k)
    \/ \E a \in 1..MaxAttempts : UserInitReturns(a)
    \/ \E a \in 1..MaxAttempts : ConnectReturns(a)
    \/ \E a \in 1..MaxAttempts : DisconnectReturns(a)
    \/ \E a \in 1..MaxAttempts : ChannelReturns(a)
    \/ \E a \in 1..MaxAttempts : ChannelCachedReturns(a)
    \/ \E a \in 1..MaxAttempts, e \in ChannelErrors : AttemptThrows(a, e)

SpecChannel == Init /\ [][NextChannel]_vars

\* The video clients: calls of getOrCreateVideoClient and of
\* disconnectVideoClient for two users, overlapping freely.
VideoUsers == {UserA, UserB}

NextVideo ==
    \/ \E v \in VideoCalls, u \in VideoUsers : GetOrCreateVideoClient(v, u)
    \/ \E v \in VideoCalls : VideoConnectReturns(v)
    \/ \E v \in VideoCalls : VideoConnectThrows(v)
    \/ \E c \in 1..MaxVideoClients : VideoConnectionError(c)
    \/ \E d \in Disconnects, u \in VideoUsers : DisconnectVideoClient(d, u)
    \/ \E d \in Disconnects, ok \in BOOLEAN : VideoDisconnectEnds(d, ok)

SpecVideo == Init /\ [][NextVideo]_vars

\* The video clients of two users, with disconnectVideoClient() running
\* through the map while clients are asked for.
NextVideoCache ==
    \/ \E v \in VideoCalls, u \in VideoUsers : GetOrCreateVideoClient(v, u)
    \/ \E v \in VideoCalls : VideoConnectReturns(v)
    \/ \E v \in VideoCalls : VideoConnectThrows(v)
    \/ DisconnectAllVideoClients
    \/ \E u \in VideoUsers, ok \in BOOLEAN : DisconnectAllStep(u, ok)

SpecVideoCache == Init /\ [][NextVideoCache]_vars

\* One chat page that connects, and runs of handleVideoCall on it.
NextVideoCall ==
    \/ Mount(1, UserA, UserB)
    \/ InitializeChat(1, 1)
    \/ UserInitReturns(1)
    \/ ConnectReturns(1)
    \/ ChannelReturns(1)
    \/ FollowerSettles(1)
    \/ Unmount(1)
    \/ HandleVideoCall(1)
    \/ HandleVideoClientReturns
    \/ CallCreateReturns
    \/ CallTimerFires
    \/ SendMessageReturns
    \/ \E e \in SpecErrors : HandleVideoCallThrows(e)
    \/ \E d \in {CallTimeout} : Tick(d, MaxTicks)

SpecVideoCall == Init /\ [][NextVideoCall]_vars

\* Teardown: one chat page with its connection and its video client, and
\* teardown runs, one at a time, between the steps that build the handles
\* up.
NoTeardownRuns ==
    /\ chat.teardown.run.pc = "idle"
    /\ \A d \in Disconnects : chat.disconnects[d].pc \in {"idle", "done"}

NextTeardown ==
    \/ NoTeardownRuns /\ Mount(1, UserA, UserB)
    \/ NoTeardownRuns /\ InitializeChat(1, 1)
    \/ NoTeardownRuns /\ UserInitReturns(1)
    \/ NoTeardownRuns /\ ConnectReturns(1)
    \/ NoTeardownRuns /\ ChannelReturns(1)
    \/ NoTeardownRuns /\ FollowerSettles(1)
    \/ NoTeardownRuns /\ GetOrCreateVideoClient(1, UserA)
    \/ NoTeardownRuns /\ VideoConnectReturns(1)
    \/ NoTeardownRuns /\ gateLog.n = 0 /\ ShouldRateLimitCall(UserA, OpDefault)
    \/ NoTeardownRuns /\ CleanupConnection(1)
    \/ \E ok \in BOOLEAN : CleanupVideoEnds(ok)
    \/ \E ok, cleared \in BOOLEAN : CleanupChatEnds(ok, cleared)
    \/ NoTeardownRuns /\ DisconnectAllVideoClients
    \/ \E u \in VideoUsers, ok \in BOOLEAN : DisconnectAllStep(u, ok)
    \/ NoTeardownRuns /\ DisconnectVideoClient(1, UserA)
    \/ \E ok \in BOOLEAN : VideoDisconnectEnds(1, ok)

SpecTeardown == Init /\ [][NextTeardown]_vars

\* The call page: its call is set up, and cleanup runs, one at a time.
NextCallTeardown ==
    \/ InitializeCall
    \/ JoinReturns
    \/ \E e \in LeaveErrors, connected \in BOOLEAN : JoinThrows(e, connected)
    \/ InitializeCallFinally
    \/ CallCleanup
    \/ \E outcome \in {"ok"} \cup LeaveErrors : CallLeaveEnds(outcome)
    \/ \E ok \in BOOLEAN : CallDisconnectEnds(ok)

SpecCallTeardown == Init /\ [][NextCallTeardown]_vars

\* The call page with a collaborator whose leave() and disconnectUser()
\* succeed: cleanup runs while initializeCall awaits join().
NextCallRace ==
    \/ InitializeCall
    \/ JoinReturns
    \/ \E e \in SpecErrors, connected \in BOOLEAN : JoinThrows(e, connected)
    \/ InitializeCallFinally
    \/ CallCleanup
    \/ CallLeaveEnds("ok")
    \/ CallDisconnectEnds(TRUE)

SpecCallRace == Init /\ [][NextCallRace]_vars

\* The backend serving two users: token and chat-initialisation requests
\* whose upserts succeed or fail, and the cache timers.
BackendUsers == {UserA, UserB}

NextBackend ==
    \/ \E r \in Requests, u \in BackendUsers \cup {<<>>} : GetStreamToken(r, u)
    \/ \E r \in Requests, ok \in BOOLEAN : TokenUpsertEnds(r, ok)
    \/ \E t \in chat.backend.expiry : CacheExpires(t)
    \/ \E r \in Requests, u, t \in BackendUsers \cup {<<>>}, found \in BOOLEAN :
          InitializeChatUsers(r, u, t, found)
    \/ \E r \in Requests, ok \in SUBSET BackendUsers : UsersUpsertEnd(r, ok)
    \/ Tick(CacheLifetime, MaxTicks)

SpecBackend == Init /\ [][NextBackend]_vars

-----------------------------------------------------------------------------
(* Claims *)

\* The terminal errors executeWithRetry constructs when it blocks a key.
TerminalErrors == {"EVideoFailed", "ERateExceeded"}

\* C1: while a key is in the BlockedSet, an executeWithRetry call for that
\* key fails at once and never invokes the wrapped operation: no call that
\* entered with its key blocked is ever found awaiting the operation.
C1_BlockedNeverInvokes ==
    \A c \in Calls : ~(calls[c].pc = "op" /\ calls[c].enteredBlocked)

C3_AttemptAfterMaxRetriesNotInvoked ==
    \A c \in Calls :
        (calls[c].maxRetries >= 1 /\ calls[c].failed >= calls[c].maxRetries)
        => calls[c].pc # "op"

\* C4: one external call makes at most maxRetries recursive retries and at
\* most maxRetries + 1 invocations of the operation, in every interleaving.
C4_AtMostMaxRetries ==
    \A c \in Calls :
        /\ calls[c].retries <= calls[c].maxRetries
        /\ calls[c].invoked <= calls[c].maxRetries + 1

\* C5: when the operation rejects with an error that matches neither
\* classifier ("Unauthorized"), the call ends in that step, rejects with
\* that very error, leaves RetryState and BlockedSet as they were, and, if
\* no retryable failure came before, has invoked the operation once.
C5_UnclassifiedErrorPropagates ==
    [][\A c \in Calls :
          (calls[c].pc = "op" /\ calls'[c].opResult = "EOther"
           /\ calls'[c] # calls[c])
          => /\ calls'[c].pc = "done"
             /\ calls'[c].result = [kind |-> "threw", val |-> "EOther"]
             /\ calls'[c].invoked = calls[c].invoked
             /\ calls[c].failed = 0 => calls'[c].invoked = 1
             /\ retryAttempts' = retryAttempts
             /\ blockedOperations' = blockedOperations]_vars

\* C5 witness: a call ended with the unclassified error after one
\* invocation, while its key had a RetryState entry and another key was
\* blocked.
C5_Witness ==
    \E c \in Calls :
        /\ calls[c].pc = "done"
        /\ calls[c].result = [kind |-> "threw", val |-> "EOther"]
        /\ calls[c].invoked = 1
        /\ MapHas(retryAttempts, KeyOf(calls[c]))
        /\ blockedOperations # {}

\* C6: when the operation resolves, the call returns the operation's result
\* and at that moment its key has no RetryState entry and is not blocked.
C6_SuccessClearsKey ==
    [][\A c \in Calls :
          (calls[c].pc = "op" /\ calls'[c].opResult \in OpValues
           /\ calls'[c] # calls[c])
          => /\ calls'[c].pc = "done"
             /\ calls'[c].result = [kind |-> "returned",
                                    val |-> calls'[c].opResult]
             /\ ~MapHas(retryAttempts', KeyOf(calls[c]))
             /\ KeyOf(calls[c]) \notin blockedOperations']_vars

\* C6 witness: a call that entered with its key blocked and a RetryState
\* entry present has returned the operation's result.
C6_Witness ==
    \E c \in Calls :
        /\ calls[c].pc = "done" /\ calls[c].result.kind = "returned"
        /\ calls[c].enteredBlocked
        /\ ~MapHas(retryAttempts, KeyOf(calls[c]))
        /\ KeyOf(calls[c]) \notin blockedOperations

\* The intervals the claim C7 gives.
C7_Interval(operation) ==
    CASE operation = OpVideoCall -> 5000
      [] operation = OpChannelCreate -> 3000
      [] operation = OpUserConnect -> 4000
      [] operation = OpSendMessage -> 1000
      [] OTHER -> 2000

\* The times of the not-blocked answers for the key of entry i of the gate
\* log that came before entry i.
C7_PassesBefore(i) ==
    {gateLog.obs[j].t : j \in {x \in 1..(i - 1) :
        /\ gateLog.obs[x].userId = gateLog.obs[i].userId
        /\ gateLog.obs[x].operation = gateLog.obs[i].operation
        /\ ~gateLog.obs[x].ret}}

\* C7: a shouldRateLimit call on an unblocked key answers blocked exactly
\* when a not-blocked answer for the key was given less than the interval
\* of the operation type ago (5000 video-call, 3000 channel-create, 4000
\* user-connect, 1000 send-message, 2000 otherwise).
C7_GateSpacing ==
    \A i \in 1..Len(gateLog.obs) :
        gateLog.obs[i].ret =
            (\E p \in C7_PassesBefore(i) :
                gateLog.obs[i].t - p < C7_Interval(gateLog.obs[i].operation))

\* C7 witness: three calls for the video-call key: not blocked, blocked
\* 4000 ms later, not blocked 1000 ms after that.
C7_Witness ==
    /\ Len(gateLog.obs) = 3
    /\ \A i \in 1..3 : gateLog.obs[i].operation = OpVideoCall
    /\ ~gateLog.obs[1].ret /\ gateLog.obs[2].ret /\ ~gateLog.obs[3].ret
    /\ gateLog.obs[2].t = gateLog.obs[1].t + 4000
    /\ gateLog.obs[3].t = gateLog.obs[1].t + 5000

\* C8: the WebSocket attempt gate admits at most 5 attempts per key in a
\* 5-minute window, also in the window after the first one has elapsed.
C8_FiveAttemptsPerWindow ==
    \A k \in DOMAIN wsHist : wsHist[k].passes <= 5

\* A key of connectionAttempts, retryAttempts, lastRequestTime or
\* blockedOperations that belongs to subject u.
C9_KeyedBy(k, u) == StartsWith(k, u \o <<"-">>)

\* C9: right after clearUserAttempts(u) no map holds an entry keyed by u,
\* and shouldRateLimit answers not-blocked for every key of u.
C9_ClearRemovesSubject ==
    lastEvent.op = "clearUserAttempts" =>
        LET u == lastEvent.userId
        IN /\ \A k \in DOMAIN retryAttempts : ~C9_KeyedBy(k, u)
           /\ \A k \in DOMAIN lastRequestTime : ~C9_KeyedBy(k, u)
           /\ \A k \in blockedOperations : ~C9_KeyedBy(k, u)
           /\ \A k \in DOMAIN connectionAttempts : ~C9_KeyedBy(k, u)
           /\ \A op \in OpTypes :
                 ~shouldRateLimit(u, op, lastRequestTime,
                                  blockedOperations, now).ret

\* C9 witness: clearUserAttempts has just run for a subject that had a
\* blocked key.
C9_Witness ==
    lastEvent.op = "clearUserAttempts" /\ lastEvent.hadBlocked


\* C10: a call of initializeChat made while a connection attempt is in
\* flight starts no attempt of its own, and the promise it returned settles
\* as that attempt settled: fulfilled when it succeeded, rejected with the
\* same error when it failed.
C10_CallersShareTheAttempt ==
    \A k \in Callers :
        LET c == chat.callers[k]
        IN (c.joined # 0 /\ chat.attempts[c.joined].outcome.status # "pending")
               => /\ c.started = 0
                  /\ c.pc = "done" => c.outcome = chat.attempts[c.joined].outcome

\* C11: of two getOrCreateChannel requests for the same channel id, the
\* second begun after the first returned and the cache not written in
\* between, the second returns the very handle the first returned and does
\* not run the creation path; and a creation that failed, the cache not
\* written meanwhile, leaves no entry for the id.
C11_SecondRequestIsCached ==
    LET log == chat.channelLog
    IN /\ \A i, j \in 1..Len(log) :
            ( /\ i < j /\ log[i].id = log[j].id /\ ~log[i].failed
              /\ log[j].after >= i
              /\ log[j].writesAtStart = log[i].writesAtEnd )
            => /\ ~log[j].failed /\ ~log[j].created
               /\ log[j].handle = log[i].handle
       /\ \A i \in 1..Len(log) :
            (log[i].failed /\ log[i].writesAtStart = log[i].writesAtEnd)
            => ~log[i].cachedAtEnd

C11_Witness ==
    LET log == chat.channelLog
    IN /\ \E i, j \in 1..Len(log) :
            /\ i < j /\ log[i].id = log[j].id /\ log[i].created
            /\ log[j].after >= i
            /\ log[j].writesAtStart = log[i].writesAtEnd
            /\ log[j].handle = log[i].handle
       /\ \E i \in 1..Len(log) : log[i].failed

\* C12: a channel handle a request gets was created for the subject the
\* request is made for, never for another subject whose channel id is the
\* same; and once the chat page is unmounted and no connection attempt is
\* left running, the channel cache holds no entry.
C12_NoReuseAcrossSubjects ==
    /\ \A i \in 1..Len(chat.channelLog) :
          ~chat.channelLog[i].failed
              => chat.channelLog[i].handle.subject = chat.channelLog[i].subject
    /\ ( /\ \A i \in Instances : ~chat.comp[i].live
         /\ \E i \in Instances : chat.comp[i] # NoInstance
         /\ Pending(chat) = {} )
       => chat.channelCache = EmptyMap

\* C13: at any time a user has at most one connected video client.
C13_OneLiveVideoClient ==
    \A u \in VideoUsers : Cardinality(LiveVideoClients(u)) <= 1

\* C14: no teardown run rejects, whatever the collaborator's leave and
\* disconnect calls threw; and a run that begins in the state the last run
\* of the same teardown ended in leaves that state as it is.
C14_TeardownIdempotent ==
    /\ ~chat.teardown.last.rejected
    /\ chat.teardown.last.repeat => ~chat.teardown.last.changed

\* C15 as stated: for every attempt count a, the delay is at least
\* 2000 * 2^a and less than 2000 * 2^a + 1000, and at most 61000.
C15_Original ==
    lastEvent.op = "calculateBackoffDelay"
        => /\ 2000 * (2 ^ lastEvent.attempt) <= lastEvent.delay
           /\ lastEvent.delay < 2000 * (2 ^ lastEvent.attempt) + 1000
           /\ lastEvent.delay <= 61000

\* C15: for an attempt count a with 2000 * 2^a <= 60000 the delay is at
\* least 2000 * 2^a and less than 2000 * 2^a + 1000; for a larger attempt
\* count it is at least 60000 and less than 61000; it is at most 61000 for
\* every attempt count.
C15_BackoffBounds ==
    lastEvent.op = "calculateBackoffDelay"
        => /\ IF 2000 * (2 ^ lastEvent.attempt) <= 60000
              THEN /\ 2000 * (2 ^ lastEvent.attempt) <= lastEvent.delay
                   /\ lastEvent.delay < 2000 * (2 ^ lastEvent.attempt) + 1000
              ELSE /\ 60000 <= lastEvent.delay
                   /\ lastEvent.delay < 61000
           /\ lastEvent.delay <= 61000

C15_Witness ==
    /\ lastEvent.op = "calculateBackoffDelay"
    /\ lastEvent.attempt >= 5
    /\ lastEvent.jitter = 999
    /\ lastEvent.delay = 60999

\* C16: a call of shouldRateLimit that answers not blocked sets the
\* lastRequestTime of its key to the current time and changes nothing
\* else; a call that answers blocked, for a blocked key or for an interval
\* not yet elapsed, changes no map at all.
C16_GateRecordsOnlyPasses ==
    [][ gateLog'.n = gateLog.n + 1 =>
          LET o == gateLog'.obs[Len(gateLog'.obs)]
              key == Key(o.userId, o.operation)
          IN /\ IF o.ret
                THEN lastRequestTime' = lastRequestTime
                ELSE /\ MapHas(lastRequestTime', key)
                     /\ lastRequestTime'[key] = now
                     /\ \A k \in DOMAIN lastRequestTime' \ {key} :
                           /\ MapHas(lastRequestTime, k)
                           /\ lastRequestTime'[k] = lastRequestTime[k]
                     /\ DOMAIN lastRequestTime \subseteq DOMAIN lastRequestTime'
             /\ key \in blockedOperations => o.ret
             /\ UNCHANGED <<retryAttempts, connectionAttempts,
                            blockedOperations>> ]_vars

\* C16 witness: the gate has answered not blocked, it has answered blocked
\* for a blocked key, and blocked for an interval not elapsed.
C16_Witness ==
    /\ \E i \in 1..Len(gateLog.obs) : ~gateLog.obs[i].ret
    /\ \E i \in 1..Len(gateLog.obs) :
          /\ gateLog.obs[i].ret
          /\ Key(gateLog.obs[i].userId, gateLog.obs[i].operation)
                 \in blockedOperations
    /\ \E i \in 1..Len(gateLog.obs) :
          /\ gateLog.obs[i].ret
          /\ Key(gateLog.obs[i].userId, gateLog.obs[i].operation)
                 \notin blockedOperations

\* An attempt of call c begins in this step: executeWithRetry is entered,
\* from outside or by the recursive call, and goes on to the operation,
\* at once or after the throttling sleep.
C17_AttemptBegins(c) ==
    /\ calls[c].pc \in {"idle", "done", "backoff"}
    /\ calls'[c].pc \in {"op", "throttle"}

\* C17 as stated: every attempt that invokes the operation records its
\* start time in lastRequestTime for its key.
C17_Original ==
    [][ \A c \in Calls :
          C17_AttemptBegins(c)
              => /\ MapHas(lastRequestTime', KeyOf(calls'[c]))
                 /\ lastRequestTime'[KeyOf(calls'[c])] = now ]_vars

\* C17: an attempt the gate lets pass records its start time in
\* lastRequestTime for its key before it invokes the operation; an
\* attempt the gate throttles leaves lastRequestTime as it is, when it
\* begins and when it invokes the operation after its sleep.
C17_PassedAttemptsRecord ==
    [][ \A c \in Calls :
          /\ C17_AttemptBegins(c) =>
                IF calls'[c].pc = "op"
                THEN /\ MapHas(lastRequestTime', KeyOf(calls'[c]))
                     /\ lastRequestTime'[KeyOf(calls'[c])] = now
                ELSE lastRequestTime' = lastRequestTime
          /\ (calls[c].pc = "throttle" /\ calls'[c].pc = "op")
                => lastRequestTime' = lastRequestTime ]_vars

\* C17 witness: a call entered on a blocked key has invoked the operation
\* after its throttling sleep, and another attempt has invoked it at once.
C17_Witness ==
    /\ \E c \in Calls :
          /\ calls[c].pc = "op" /\ calls[c].enteredBlocked
          /\ calls[c].invoked >= 1
    /\ \E c \in Calls : calls[c].pc = "done" /\ ~calls[c].enteredBlocked
                          /\ calls[c].invoked >= 1

\* The rate limit gate is consulted for the attempt of call c that begins in
\* this step, and answers blocked: the key is blocked, or the interval of
\* its operation type has not passed since the last request recorded.
C18_GateBlocks(c) ==
    LET rec == calls'[c]
        key == KeyOf(rec)
    IN /\ calls[c].pc \in {"idle", "done", "backoff"}
       /\ calls'[c] # calls[c]
       /\ ~(rec.pc = "done" /\ rec.result.val = "EWsLimit")
       /\ \/ key \in blockedOperations
          \/ /\ MapHas(lastRequestTime, key)
             /\ now - lastRequestTime[key] < C7_Interval(rec.operationType)

C19_WsGateBlocks(c) ==
    LET wsKey == WsKey(calls'[c].userId, calls'[c].operationType)
    IN /\ \/ Includes(calls'[c].operationType, <<"v","i","d","e","o">>)
          \/ Includes(calls'[c].operationType,
                      <<"c","o","n","n","e","c","t">>)
       /\ MapHas(connectionAttempts, wsKey)
       /\ now - connectionAttempts[wsKey].firstAttempt <= WsWindow
       /\ connectionAttempts[wsKey].count >= WsMaxAttempts

\* C19: when the WebSocket Attempt Gate blocks an entry of executeWithRetry for
\* a type containing 'video' or 'connect', the call ends with the connection
\* rate limit error, the operation is not invoked, nothing is scheduled, and
\* RetryState, LastRequestTime and BlockedSet are unchanged; an entry for any
\* other type leaves the gate's map unchanged and never ends with that error.
C19_WsBlockRejectsUntouched ==
    [][\A c \in Calls :
          (/\ calls[c].pc \in {"idle", "done", "backoff"}
           /\ calls'[c] # calls[c])
          => /\ C19_WsGateBlocks(c)
                => /\ calls'[c].pc = "done"
                   /\ calls'[c].result = [kind |-> "threw", val |-> "EWsLimit"]
                   /\ Message("EWsLimit")
                          \notin {Message(e) : e \in TerminalErrors}
                   /\ calls'[c].wakeAt = 0
                   /\ calls'[c].invoked =
                          IF calls[c].pc = "backoff"
                          THEN calls[c].invoked ELSE 0
                   /\ UNCHANGED <<retryAttempts, lastRequestTime,
                                  blockedOperations, timers,
                                  connectionAttempts>>
             /\ (/\ ~Includes(calls'[c].operationType,
                              <<"v","i","d","e","o">>)
                 /\ ~Includes(calls'[c].operationType,
                              <<"c","o","n","n","e","c","t">>))
                => /\ UNCHANGED connectionAttempts
                   /\ calls'[c].result.val # "EWsLimit"]_vars

\* A call of a WebSocket type was rejected by the gate on its sixth entry, and
\* a call of another type has entered.
C19_Witness ==
    \E c \in Calls :
        /\ calls[c].pc = "done"
        /\ calls[c].result = [kind |-> "threw", val |-> "EWsLimit"]
        /\ calls[c].operationType = OpVideoCall
        /\ calls[c].invoked = WsMaxAttempts

\* C20: after an executeWithRetry call has returned, or has thrown one of the
\* two errors of the permanent block, the RetryState holds no entry for the
\* key of the call.
C20_NoRetryStateAfterEnd ==
    \A c \in Calls :
        (/\ calls[c].pc = "done"
         /\ \/ calls[c].result.kind = "returned"
            \/ /\ calls[c].result.kind = "threw"
               /\ calls[c].result.val \in TerminalErrors)
        => ~MapHas(retryAttempts, KeyOf(calls[c]))

\* C21: an auto-unblock timer never removes a block established later: a step
\* that runs the callback of a timer leaves a key in the BlockedSet when a
\* later timer of that key, set when the key was added again, is not due yet.
C21_StaleTimerIsNoOp ==
    [][\A s \in timers \ timers' :
          \A t \in timers' :
              (/\ t.key = s.key
               /\ t.due > now
               /\ t.key \in blockedOperations)
              => t.key \in blockedOperations']_vars

\* C22: every key added to the BlockedSet is eventually removed, timers
\* eventually firing: a blocked key leads to a state where it is not blocked.
C22_BlockedEventuallyRemoved ==
    (Key(UserA, OpDefault) \in blockedOperations)
        ~> (Key(UserA, OpDefault) \notin blockedOperations)

\* A call ended by blocking its key, and the key left the set when the last
\* timer fired, no clearUserAttempts having run.
C22_Witness ==
    /\ \E c \in Calls :
          /\ calls[c].pc = "done"
          /\ calls[c].result = [kind |-> "threw", val |-> "ERateExceeded"]
          /\ KeyOf(calls[c]) \notin blockedOperations
    /\ timers = {}
    /\ lastEvent = NoEvent
    /\ \A c \in Calls : calls[c].result.kind # "returned"

\* The errors each classifier matches.
C23_RateLimitMatches == {e \in CollaboratorErrors : isRateLimitError(e)}
C23_ConnectionMatches == {e \in CollaboratorErrors : isWebSocketError(e)}

\* C23: when the operation of a call rejects with an error that one of the two
\* classifiers matches and the stored attempt count has reached maxRetries,
\* the key is added to the BlockedSet with its timer, the RetryState is left
\* as it is, and the call rejects with the video connection error if the
\* connection classifier matches and with the rate limit error otherwise; an
\* error both classifiers match is retried below the limit, after twice the
\* backoff delay.
C23_BlockAtLimit ==
    [][\A c \in Calls :
          (/\ calls[c].pc = "op"
           /\ calls'[c].pc \in {"backoff", "done"}
           /\ calls'[c].result.kind # "returned")
          => LET e == calls'[c].opResult
                 key == KeyOf(calls[c])
             IN /\ ((e \in C23_RateLimitMatches \/ e \in C23_ConnectionMatches)
                    /\ calls[c].attempt >= calls[c].maxRetries)
                   => /\ calls'[c].pc = "done"
                      /\ key \in blockedOperations'
                      /\ [key |-> key, due |-> now + 300000] \in timers'
                      /\ retryAttempts' = retryAttempts
                      /\ calls'[c].result =
                             [kind |-> "threw",
                              val |-> IF e \in C23_ConnectionMatches
                                      THEN "EVideoFailed"
                                      ELSE "ERateExceeded"]
                /\ (e \in C23_RateLimitMatches /\ e \in C23_ConnectionMatches
                    /\ calls[c].attempt < calls[c].maxRetries)
                   => /\ calls'[c].pc = "backoff"
                      /\ retryAttempts'[key] = calls[c].attempt + 1
                      /\ \E j \in JitterChoices :
                            calls'[c].wakeAt =
                                now + 2 * Min(2000 * 2 ^ (calls[c].attempt + 1)
                                                  + j, 60000)]_vars

\* A call was retried after an error both classifiers match and ended at the
\* limit with the video connection error, its RetryState entry still stored.
C23_Witness ==
    \E c \in Calls :
        /\ calls[c].pc = "done"
        /\ calls[c].opResult = "EBoth"
        /\ calls[c].result = [kind |-> "threw", val |-> "EVideoFailed"]
        /\ calls[c].maxRetries >= 1
        /\ calls[c].allRetryable
        /\ MapHas(retryAttempts, KeyOf(calls[c]))
        /\ retryAttempts[KeyOf(calls[c])] = calls[c].maxRetries

\* C24: when a run of cleanupConnection has ended, the chat session handle is
\* released, the channel cache is empty and connectionPromise is null in the
\* state it ended in, and its promise did not reject.
C24_CleanupReleasesSession ==
    chat.teardown.last.kind = "cleanupConnection"
        => /\ ~chat.teardown.last.after.client.exists
           /\ chat.teardown.last.after.channelCache = EmptyMap
           /\ chat.teardown.last.after.connectionPromise = 0
           /\ ~chat.teardown.last.rejected

\* C25: getOrCreateVideoClient returns the cached client only if the user the
\* client holds is the requesting subject; a call that finds a cached entry
\* failing that validation evicts it before it connects a new client; a
\* connect that succeeded stores the new, connected client, and a connect
\* that failed stores nothing.
C25_VideoCacheValidated ==
    [][\A v \in VideoCalls :
          LET u == chat'.videoCalls[v].userId
              c == chat'.videoCalls[v].client
          IN /\ (/\ chat.videoCalls[v].pc \in {"idle", "done", "threw"}
                 /\ chat'.videoCalls[v] # chat.videoCalls[v]
                 /\ chat'.videoCalls[v].pc = "done")
                => /\ MapHas(chat.videoClientMap, u)
                   /\ chat.videoClientMap[u] = c
                   /\ chat.videoClients[c].user = u
             /\ (/\ chat.videoCalls[v].pc \in {"idle", "done", "threw"}
                 /\ chat'.videoCalls[v].pc = "connecting")
                => ~MapHas(chat'.videoClientMap, u)
             /\ (/\ chat.videoCalls[v].pc = "connecting"
                 /\ chat'.videoCalls[v].pc = "done")
                => /\ MapHas(chat'.videoClientMap, u)
                   /\ chat'.videoClientMap[u] = c
                   /\ chat'.videoClients[c] = [user |-> u, connected |-> TRUE]
             /\ (/\ chat.videoCalls[v].pc = "connecting"
                 /\ chat'.videoCalls[v].pc = "threw")
                => chat'.videoClientMap = chat.videoClientMap]_vars

\* C26: the connection state of a chat page changes only along
\* disconnected -> connecting -> connected -> (error | disconnected) and
\* error -> disconnected; in particular never from connecting to error, from
\* connected to connecting or from error to connecting.
C26_ConnectionStateMachine ==
    [][\A i \in Instances :
          chat'.comp[i].connectionState # chat.comp[i].connectionState
          => <<chat.comp[i].connectionState, chat'.comp[i].connectionState>>
                 \in {<<"disconnected", "connecting">>,
                      <<"connecting", "connected">>,
                      <<"connected", "error">>,
                      <<"connected", "disconnected">>,
                      <<"error", "disconnected">>}]_vars

\* C27: in a run of handleVideoCall the invite is sent only after call
\* creation won the race against the 10-second timer, and the page navigates
\* only after the send returned; a run the timer ended carries the 'timed
\* out' error, which isWebSocketError matches, and like every run that failed
\* before the call was created it has sent nothing and has not navigated.
C27_NavigateOnlyAfterSend ==
    /\ chat.handle.navigated => chat.handle.sent
    /\ chat.handle.sent => chat.handle.sendStarted
    /\ chat.handle.sendStarted => chat.handle.created
    /\ chat.handle.error # "none" => ~chat.handle.navigated
    /\ chat.handle.error = "ETimedOut"
          => /\ isWebSocketError("ETimedOut")
             /\ Includes(Message("ETimedOut"),
                         <<"t","i","m","e","d"," ","o","u","t">>)
             /\ now >= chat.handle.deadline
             /\ ~chat.handle.created
             /\ ~chat.handle.sendStarted

\* The timer won the race: the run ended with the 'timed out' error.
C27_Witness ==
    /\ chat.handle.pc = "done"
    /\ chat.handle.error = "ETimedOut"
    /\ chat.handle.toast = "timedOut"

\* C28: clearUserAttempts(u) leaves every entry of another subject as it is in
\* the four maps, also when u is a prefix of the other subject's id.
C28_ClearLeavesOtherSubjects ==
    [][lastEvent'.op = "clearUserAttempts"
       => \A v \in Users \ {lastEvent'.userId} :
             /\ \A k \in DOMAIN retryAttempts :
                   C9_KeyedBy(k, v)
                   => MapHas(retryAttempts', k)
                      /\ retryAttempts'[k] = retryAttempts[k]
             /\ \A k \in DOMAIN lastRequestTime :
                   C9_KeyedBy(k, v)
                   => MapHas(lastRequestTime', k)
                      /\ lastRequestTime'[k] = lastRequestTime[k]
             /\ \A k \in blockedOperations :
                   C9_KeyedBy(k, v) => k \in blockedOperations'
             /\ \A k \in DOMAIN connectionAttempts :
                   C9_KeyedBy(k, v)
                   => MapHas(connectionAttempts', k)
                      /\ connectionAttempts'[k] = connectionAttempts[k]]_vars

\* C29: every stored WebSocket attempt-window entry has a count from 1 to 5;
\* a step leaves an entry that is at 5 within its window as it is, and an
\* entry whose window has expired is either left alone or removed, never
\* stored anew.
C29_WsCountWithinBounds ==
    [][/\ \A k \in DOMAIN connectionAttempts' :
             /\ connectionAttempts'[k].count >= 1
             /\ connectionAttempts'[k].count <= 5
       /\ \A k \in DOMAIN connectionAttempts :
             /\ (/\ connectionAttempts[k].count >= 5
                 /\ now - connectionAttempts[k].firstAttempt <= 300000)
                => /\ MapHas(connectionAttempts', k)
                   /\ connectionAttempts'[k] = connectionAttempts[k]
             /\ (now - connectionAttempts[k].firstAttempt > 300000)
                => \/ ~MapHas(connectionAttempts', k)
                   \/ connectionAttempts'[k] = connectionAttempts[k]]_vars

\* One key was tried more than five times within its window: the entry
\* stands at 5 after a blocked call.
C29_Witness ==
    /\ nTicks = 0
    /\ gateLog.nWs > 5
    /\ \E k \in DOMAIN connectionAttempts :
          /\ DOMAIN connectionAttempts = {k}
          /\ connectionAttempts[k].count = 5

\* C30: the connection-error observer of a video client evicts only that
\* client: when the error event of a client of subject s has run, a cache
\* entry of s that held a client constructed later is still there.
C30_ErrorEvictsOnlyItsClient ==
    [][lastEvent'.op = "connection.error" /\ chat' # chat
       => LET s == lastEvent'.userId
          IN (MapHas(chat.videoClientMap, s)
              /\ chat.videoClientMap[s] > lastEvent'.client)
             => /\ MapHas(chat'.videoClientMap, s)
                /\ chat'.videoClientMap[s] = chat.videoClientMap[s]]_vars

\* C31: when initializeCall has finished and a cleanup that ran after it
\* began has finished (the refs it set are null again), no call is joined, no video client is connected, and the
\* client and call state of the page are both set or both null.
C31_CleanupRaceLeaksNothing ==
    (/\ chat.callPage.pc \in {"joined", "failed"}
     /\ chat.teardown.run.pc = "idle"
     /\ ~chat.callPage.callRef
     /\ ~chat.callPage.clientRef)
    => /\ ~chat.callPage.joined
       /\ ~chat.callPage.connected
       /\ chat.callPage.client = chat.callPage.call


\* C32: whenever a chat page instance is in connection state 'connected'
\* with a channel set, its video token is available.
C32_ConnectedHasVideoToken ==
    \A i \in Instances :
        (/\ chat.comp[i].live
         /\ chat.comp[i].connectionState = "connected"
         /\ chat.comp[i].channel # <<>>)
        => chat.comp[i].videoToken


\* C33: when no upsert is in flight, every user id in userCreationCache is
\* one the platform has upserted successfully: a failed upsert leaves the
\* cache without the id.
C33_CachedOnlyIfUpserted ==
    (\A r \in Requests : chat.backend.reqs[r].pc # "upsert")
    => \A u \in DOMAIN chat.backend.userCreationCache :
          u \in chat.backend.upserted

=============================================================================
